---- MODULE Spec2Model ----
(***************************************************************************)
(* ecoflow-supabase: the Supabase authentication middleware of an EcoFlow  *)
(* host.  Every controller is an async function: it runs synchronously up  *)
(* to its single `await` on a Supabase Auth call (the "sync" segment), is  *)
(* suspended while the call is in flight, and runs to its end when the     *)
(* response arrives (the "resume" segment).  The host's route table        *)
(* (router.apiRouter.stack) and its configuration registry (moduleConfigs) *)
(* are the only state shared between invocations.                          *)
(*                                                                         *)
(* JavaScript objects are functions with string domains; a property that   *)
(* is `undefined` is a key that is not in the domain.  `null` is "null".   *)
(***************************************************************************)
EXTENDS Naturals, Sequences, FiniteSets, Bags, TLC

VARIABLES
    routes,     \* router.apiRouter.stack: the registered layers, in order
    registry,   \* moduleConfigs: package name -> client key -> configuration;
                \* for the versions before moduleConfigs, the process's `global`
    inflight,   \* slot -> continuation of an invocation suspended at its await
    last,       \* the context as the segment that ran last left it
    signins     \* history: <<client, flow, unset>> of the sign-ins that left
                \* for the provider with the module's callback path as
                \* redirect target; unset: callbackURL was unset or empty

vars == <<routes, registry, inflight, last, signins>>

----------------------------------------------------------------------------
(* Bounds *)

\* Invocations that may be suspended at their await at the same time (Spec).
MaxInFlight == 1

\* The same, for the specification of the route-registering controllers.
MaxConcurrent == 2

----------------------------------------------------------------------------
(* JavaScript values *)

EmptyRec == [x \in {} |-> TRUE]

Has(r, f) == f \in DOMAIN r

\* _.isUndefined(r.f)
IsUndefined(r, f) == ~Has(r, f)

\* !r.f || _.isEmpty(r.f), for a string-valued property
MissingStr(r, f) == ~Has(r, f) \/ r[f] = ""

\* the truthiness of a string-valued / boolean-valued property
TruthyStr(r, f) == Has(r, f) /\ r[f] # ""

TruthyFlag(r, f) == Has(r, f) /\ r[f] = TRUE

\* { [name]: src[f] } when src[f] is defined, {} otherwise
Field(name, src, f) == IF Has(src, f) THEN name :> src[f] ELSE EmptyRec

\* obj?.[f] of payload[key]: {} when payload[key] is undefined
Sub(payload, key) == IF Has(payload, key) THEN payload[key] ELSE EmptyRec

----------------------------------------------------------------------------
(* The context of one invocation, and what a controller does to it *)

Ctx(kind, hasInputs, inputs, payload, headers, query) ==
    [kind |-> kind, hasInputs |-> hasInputs, inputs |-> inputs,
     payload |-> payload, headers |-> headers, query |-> query,
     path |-> "", pc |-> "start", phase |-> "sync", status |-> 0,
     body |-> EmptyRec, nexts |-> 0, calls |-> 0, writes |-> 0,
     outcome |-> "none", call |-> EmptyRec, resolved |-> FALSE, origin |-> "",
     resp |-> EmptyRec, ret |-> EmptyRec]

Idle == Ctx("none", FALSE, EmptyRec, EmptyRec, EmptyRec, EmptyRec)

\* payload.msg = m; tag names the path that wrote it
WriteMsg(ctx, m, tag) ==
    [ctx EXCEPT !.payload = ("msg" :> m) @@ ctx.payload,
                !.writes = @ + 1, !.outcome = tag]

\* ctx.body = b (the callback route's response)
WriteBody(ctx, b, tag) ==
    [ctx EXCEPT !.body = b, !.writes = @ + 1, !.outcome = tag]

SetStatus(ctx, s) == [ctx EXCEPT !.status = s]

CallNext(ctx) == [ctx EXCEPT !.nexts = @ + 1]

Return(ctx) == [ctx EXCEPT !.pc = "returned"]

Throw(ctx) == [ctx EXCEPT !.pc = "thrown"]

Resolved(ctx) == [ctx EXCEPT !.resolved = TRUE]

\* await supabase.auth.<api>(args): the call is issued, the function suspends
Await(ctx, api, args) ==
    [ctx EXCEPT !.pc = "awaiting", !.calls = @ + 1,
                !.call = [api |-> api, args |-> args]]

----------------------------------------------------------------------------
(* The host's configuration registry and the Supabase service *)

PkgPlain == "ecoflow-supabase"

PkgAuth == "ecoflow-supabase-auth"

\* One configuration manager: c1 and c2 hold a live client, c3 holds a null
\* client handle, c4 has no entry.
Manager ==
    ("c1" :> [label |-> "first", configs |-> "supabase-c1"]) @@
    ("c2" :> [label |-> "second", configs |-> "supabase-c2"]) @@
    ("c3" :> [label |-> "broken", configs |-> "null"])

\* The registries a host may hold: the module is installed under one package
\* name, and the controllers ask for one or the other.
Registries == { PkgAuth :> Manager, PkgPlain :> Manager }

\* Variant for the sensitivity of C11_ResolutionFailures: the stored client
\* handle is not tested
ConfigErrorNoHandleCheck(reg, pkg, client) ==
    IF ~Has(reg, pkg)
    THEN "Missing configs manager for ecoflow-supabase package"
    ELSE IF ~Has(reg[pkg], client)
    THEN "Missing config for ecoflow-supabase package"
    ELSE ""

\* moduleConfigs.selectPackage(pkg), configManager.get(client), config.configs:
\* the message of the first check that fails, "" when the client resolves.
ConfigError(reg, pkg, client) ==
    IF ~Has(reg, pkg)
    THEN "Missing configs manager for ecoflow-supabase package"
    ELSE IF ~Has(reg[pkg], client)
    THEN "Missing config for ecoflow-supabase package"
    ELSE IF reg[pkg][client].configs = "null"
    THEN "Missing supabase client"
    ELSE ""

ConfigErrorMsg(reg, pkg, client) ==
    [error |-> TRUE, message |-> ConfigError(reg, pkg, client)]

\* What a Supabase Auth call answers: {data, error}, or an exception.
Resp(kind, message, user, session) ==
    [kind |-> kind, message |-> message, user |-> user, session |-> session]

RespOk(user, session) == Resp("ok", "", user, session)

RespError(message) == Resp("error", message, "null", "null")

RespThrow == Resp("throw", "fetch failed", "null", "null")

\* session.access_token, session.refresh_token, user.user_metadata
AccessToken(session) == session \o ".access_token"

RefreshToken(session) == session \o ".refresh_token"

UserMetadata(user) == user \o ".user_metadata"

RawError(resp) == [message |-> resp.message]

----------------------------------------------------------------------------
(* Steps every controller repeats *)

\* Variant for the sensitivity of C1_MissingInputs: the guard without _.isEmpty
MissingInputsUndefinedOnly(ctx) == ~ctx.hasInputs

\* !inputs || _.isEmpty(inputs)
MissingInputs(ctx) == ~ctx.hasInputs \/ DOMAIN ctx.inputs = {}

\* Variant for the sensitivity of C13_ValidationErrors: a status map on the
\* missing-inputs outcome
MissingInputsMsgWithStatus ==
    [error |-> TRUE, message |-> "Missing inputs.", status |-> [inputs |-> TRUE]]

MissingInputsMsg == [error |-> TRUE, message |-> "Missing inputs."]

\* Variant for the sensitivity of C5_MissingClient: status.client always true
MissingClientMsgFlagged(inputs) ==
    [error |-> TRUE, message |-> "Missing client.", status |-> [client |-> TRUE]]

MissingClientMsg(inputs) ==
    [error |-> TRUE, message |-> "Missing client.",
     status |-> [client |-> IsUndefined(inputs, "client")]]

\* Variant for the sensitivity of C17_CredentialSource: the literal input is
\* used whatever fromPayload says
ExtractLiteral(name, inputs, payload, keyedField, msgField, inputField) ==
    Field(name, inputs, inputField)

\* fromPayload ? (payloadKey ? payload[payloadKey]?.k : payload.msg.m) : inputs.g
Extract(name, inputs, payload, keyedField, msgField, inputField) ==
    IF TruthyFlag(inputs, "fromPayload")
    THEN IF TruthyStr(inputs, "payloadKey")
         THEN Field(name, Sub(payload, inputs.payloadKey), keyedField)
         ELSE Field(name, payload.msg, msgField)
    ELSE Field(name, inputs, inputField)

\* payload.msg.f is a TypeError when payload.msg is undefined
ExtractThrows(inputs, payload) ==
    /\ TruthyFlag(inputs, "fromPayload")
    /\ ~TruthyStr(inputs, "payloadKey")
    /\ ~Has(payload, "msg")

\* payloadKey ? payload[payloadKey]?.captchaToken : payload.msg.captchaToken
CaptchaToken(inputs, payload) ==
    IF TruthyStr(inputs, "payloadKey")
    THEN Field("captchaToken", Sub(payload, inputs.payloadKey), "captchaToken")
    ELSE Field("captchaToken", payload.msg, "captchaToken")

CaptchaThrows(inputs, payload) ==
    ~TruthyStr(inputs, "payloadKey") /\ ~Has(payload, "msg")

----------------------------------------------------------------------------
(* SignInWithPassword *)

SignInWithPassword(ctx, reg) ==
    LET inputs == ctx.inputs
        payload == ctx.payload
    IN  IF MissingInputs(ctx)
        THEN Return(WriteMsg(ctx, MissingInputsMsg, "ValidationError"))
        ELSE IF MissingStr(inputs, "client")
        THEN Return(WriteMsg(ctx, MissingClientMsg(inputs), "ValidationError"))
        ELSE IF ExtractThrows(inputs, payload) \/ CaptchaThrows(inputs, payload)
        THEN Throw(ctx)
        ELSE IF ConfigError(reg, PkgPlain, inputs.client) # ""
        THEN Return(WriteMsg(ctx, ConfigErrorMsg(reg, PkgPlain, inputs.client),
                             "ConfigError"))
        ELSE LET captcha == CaptchaToken(inputs, payload)
             IN  Await(Resolved(ctx), "signInWithPassword",
                       Extract("email", inputs, payload, "email", "email", "email") @@
                       Extract("phone", inputs, payload, "phone", "phone", "Phone") @@
                       Extract("password", inputs, payload, "password", "password",
                               "password") @@
                       (IF TruthyStr(captcha, "captchaToken")
                        THEN "options" :> captcha ELSE EmptyRec))

SignInWithPasswordResume(ctx, resp) ==
    IF resp.kind = "throw"
    THEN Throw(ctx)
    ELSE IF resp.kind = "error"
    THEN Return(WriteMsg(SetStatus(ctx, 400),
                         [error |-> TRUE, Authenticated |-> FALSE,
                          message |-> resp.message, rawError |-> RawError(resp)],
                         "AuthError"))
    ELSE Return(CallNext(WriteMsg(SetStatus(ctx, 200),
                         [success |-> TRUE,
                          message |-> "Authentication successful",
                          Authenticated |-> TRUE,
                          user |-> resp.user, session |-> resp.session,
                          userMetadata |-> UserMetadata(resp.user),
                          accessToken |-> AccessToken(resp.session),
                          refreshToken |-> RefreshToken(resp.session)],
                         "Success")))

SignInWithPasswordResponses ==
    {RespOk("u1", "s1"), RespError("Invalid login credentials"), RespThrow}

----------------------------------------------------------------------------
(* Signup *)

\* JSON.parse: the texts that parse, and what they parse to
JSONTable ==
    ("{\"role\":\"admin\"}" :> [role |-> "admin"]) @@
    ("{\"plan\":\"free\"}" :> [plan |-> "free"]) @@
    ("{}" :> EmptyRec)

JSONTexts == DOMAIN JSONTable

JSONParse(text) == JSONTable[text]

\* fromPayload ? (payloadKey ? payload[payloadKey]?.uData : payload.msg.uData)
\*             : uData || { value: "", validate: false }
UserData(inputs, payload) ==
    IF TruthyFlag(inputs, "fromPayload")
    THEN IF TruthyStr(inputs, "payloadKey")
         THEN Field("uData", Sub(payload, inputs.payloadKey), "uData")
         ELSE Field("uData", payload.msg, "uData")
    ELSE IF Has(inputs, "uData")
         THEN "uData" :> inputs.uData
         ELSE "uData" :> [value |-> "", validate |-> FALSE]

\* userData.validate of an undefined userData is a TypeError, JSON.parse of a
\* text that is no JSON a SyntaxError: both while the call's argument is built.
SignUpArgsThrow(inputs, payload) ==
    LET userData == UserData(inputs, payload)
    IN  \/ ~Has(userData, "uData")
        \/ /\ userData.uData.validate
           /\ userData.uData.value \notin JSONTexts

SignUpOptions(inputs, payload) ==
    LET userData == UserData(inputs, payload).uData
        captcha == CaptchaToken(inputs, payload)
    IN  (IF userData.validate
         THEN "data" :> JSONParse(userData.value) ELSE EmptyRec) @@
        (IF TruthyStr(captcha, "captchaToken") THEN captcha ELSE EmptyRec)

Signup(ctx, reg) ==
    LET inputs == ctx.inputs
        payload == ctx.payload
    IN  IF MissingInputs(ctx)
        THEN Return(WriteMsg(ctx, MissingInputsMsg, "ValidationError"))
        ELSE IF MissingStr(inputs, "client")
        THEN Return(WriteMsg(ctx, MissingClientMsg(inputs), "ValidationError"))
        ELSE IF ExtractThrows(inputs, payload) \/ CaptchaThrows(inputs, payload)
        THEN Throw(ctx)
        ELSE IF ConfigError(reg, PkgAuth, inputs.client) # ""
        THEN Return(WriteMsg(ctx, ConfigErrorMsg(reg, PkgAuth, inputs.client),
                             "ConfigError"))
        ELSE IF SignUpArgsThrow(inputs, payload)
        THEN Throw(Resolved(ctx))
        ELSE Await(Resolved(ctx), "signUp",
                   Extract("email", inputs, payload, "email", "email", "email") @@
                   Extract("phone", inputs, payload, "phone", "phone", "Phone") @@
                   Extract("password", inputs, payload, "password", "password",
                           "password") @@
                   ("options" :> SignUpOptions(inputs, payload)))

\* Variant for the sensitivity of C22_SuccessShape: the success outcome has no
\* success flag
SignupResumeUnflagged(ctx, resp) ==
    IF resp.kind = "throw"
    THEN Throw(ctx)
    ELSE IF resp.kind = "error"
    THEN Return(WriteMsg(SetStatus(ctx, 400),
                         [error |-> TRUE, Authenticated |-> FALSE,
                          message |-> resp.message, rawError |-> RawError(resp)],
                         "AuthError"))
    ELSE Return(CallNext(WriteMsg(SetStatus(ctx, 200),
                         [message |-> "SignUp successful",
                          user |-> resp.user, session |-> resp.session,
                          userMetadata |-> UserMetadata(resp.user)],
                         "Success")))

SignupResume(ctx, resp) ==
    IF resp.kind = "throw"
    THEN Throw(ctx)
    ELSE IF resp.kind = "error"
    THEN Return(WriteMsg(SetStatus(ctx, 400),
                         [error |-> TRUE, Authenticated |-> FALSE,
                          message |-> resp.message, rawError |-> RawError(resp)],
                         "AuthError"))
    ELSE Return(CallNext(WriteMsg(SetStatus(ctx, 200),
                         [success |-> TRUE, message |-> "SignUp successful",
                          Authenticated |-> (resp.session # "null"),
                          user |-> resp.user, session |-> resp.session,
                          userMetadata |-> UserMetadata(resp.user)] @@
                         (IF resp.session # "null"
                          THEN [accessToken |-> AccessToken(resp.session),
                                refreshToken |-> RefreshToken(resp.session)]
                          ELSE EmptyRec),
                         "Success")))

SignupResponses ==
    {RespOk("u1", "s1"), RespOk("u1", "null"),
     RespError("User already registered"), RespThrow}

----------------------------------------------------------------------------
(* Signup as it was before uData became a validated JSON text: the client is
   resolved under the ecoflow-supabase package and the answer of signUp is
   handed on as it came *)

\* fromPayload ? (payloadKey ? payload[payloadKey]?.uData : payload.msg.uData)
\*             : uData || {}
RawUserData(inputs, payload) ==
    IF TruthyFlag(inputs, "fromPayload")
    THEN IF TruthyStr(inputs, "payloadKey")
         THEN Field("data", Sub(payload, inputs.payloadKey), "uData")
         ELSE Field("data", payload.msg, "uData")
    ELSE IF Has(inputs, "uData")
         THEN "data" :> inputs.uData
         ELSE "data" :> EmptyRec

SignupRawData(ctx, reg) ==
    LET inputs == ctx.inputs
        payload == ctx.payload
        captcha == CaptchaToken(inputs, payload)
    IN  IF MissingInputs(ctx)
        THEN Return(WriteMsg(ctx, MissingInputsMsg, "ValidationError"))
        ELSE IF MissingStr(inputs, "client")
        THEN Return(WriteMsg(ctx, MissingClientMsg(inputs), "ValidationError"))
        ELSE IF ExtractThrows(inputs, payload) \/ CaptchaThrows(inputs, payload)
        THEN Throw(ctx)
        ELSE IF ConfigError(reg, PkgPlain, inputs.client) # ""
        THEN Return(WriteMsg(ctx, ConfigErrorMsg(reg, PkgPlain, inputs.client),
                             "ConfigError"))
        ELSE Await(Resolved(ctx), "signUp",
                   Extract("email", inputs, payload, "email", "email", "email") @@
                   Extract("phone", inputs, payload, "phone", "phone", "Phone") @@
                   Extract("password", inputs, payload, "password", "password",
                           "password") @@
                   ("options" :>
                      (RawUserData(inputs, payload) @@
                       (IF TruthyStr(captcha, "captchaToken")
                        THEN captcha ELSE EmptyRec))))

\* payload.msg = data
SignupRawDataResume(ctx, resp) ==
    IF resp.kind = "throw"
    THEN Throw(ctx)
    ELSE IF resp.kind = "error"
    THEN Return(WriteMsg(SetStatus(ctx, 400),
                         [error |-> TRUE, Authenticated |-> FALSE,
                          message |-> resp.message, rawError |-> RawError(resp)],
                         "AuthError"))
    ELSE Return(CallNext(WriteMsg(ctx,
                         [user |-> resp.user, session |-> resp.session],
                         "Success")))

----------------------------------------------------------------------------
(* The host's router and the callback route *)

\* server.baseUrl
BaseUrl == "https://host"

\* The prefix of router.apiRouter: a route registered at p is served, and is
\* listed in the stack, at /api + p (the default redirect target and the
\* presence check both name the route with this prefix).
ApiPrefix == "/api"

\* The path the presence check looks for, and the path handed to apiRouter.get
CheckedPath(flow) == "/api/auth/supabase/callback/" \o flow

RegisteredPath(flow) == "/auth/supabase/callback/" \o flow

\* (router.apiRouter.stack).filter(({path, methods}) =>
\*     path === checked && methods.includes("GET")).length > 0
RoutePresent(stack, path) ==
    \E i \in 1..Len(stack) : stack[i].path = path /\ "GET" \in stack[i].methods

\* Variant for the sensitivity of C7_OneRoutePerFlow: the layer is listed at
\* the path as given, which the presence check does not look for
RouterGetUnprefixed(stack, path, client) ==
    Append(stack, [path |-> path, methods |-> {"HEAD", "GET"}, client |-> client])

\* router.apiRouter.get(path, async (ctx, next) => { ctx.query.clientConfigID =
\* client; await next(); }, callbackController): one more layer on the stack,
\* whose first middleware has captured `client`.
RouterGet(stack, path, client) ==
    Append(stack, [path |-> ApiPrefix \o path, methods |-> {"HEAD", "GET"},
                   client |-> client])

\* Variant for the sensitivity of C8_NoRaceWindow: the segment before the
\* await checks and leaves the registration for later
EnsureCallbackRouteDeferred(stack, inputs, flow) == stack

\* Variant for the sensitivity of C9_RegisteredOnlyByDefaultSignIn: the
\* callbackURL input is not looked at
EnsureCallbackRouteAnyURL(stack, inputs, flow) ==
    IF ~RoutePresent(stack, CheckedPath(flow))
    THEN RouterGet(stack, RegisteredPath(flow), inputs.client)
    ELSE stack

\* (callbackURL undefined or empty) && !(route present): register the route
EnsureCallbackRoute(stack, inputs, flow) ==
    IF MissingStr(inputs, "callbackURL") /\ ~RoutePresent(stack, CheckedPath(flow))
    THEN RouterGet(stack, RegisteredPath(flow), inputs.client)
    ELSE stack

----------------------------------------------------------------------------
(* SignInWithOTP *)

SignInWithOTP(ctx, reg, stack) ==
    LET inputs == ctx.inputs
        payload == ctx.payload
        keep(c) == [ctx |-> c, routes |-> stack]
    IN  IF MissingInputs(ctx)
        THEN keep(Return(WriteMsg(ctx, MissingInputsMsg, "ValidationError")))
        ELSE IF MissingStr(inputs, "client")
        THEN keep(Return(WriteMsg(ctx, MissingClientMsg(inputs), "ValidationError")))
        ELSE IF ExtractThrows(inputs, payload)
        THEN keep(Throw(ctx))
        ELSE IF ConfigError(reg, PkgPlain, inputs.client) # ""
        THEN keep(Return(WriteMsg(ctx, ConfigErrorMsg(reg, PkgPlain, inputs.client),
                                  "ConfigError")))
        ELSE [ctx |-> Await(Resolved(ctx), "signInWithOtp",
                        Extract("email", inputs, payload, "email", "email", "email") @@
                        Extract("phone", inputs, payload, "phone", "email", "Phone") @@
                        ("options" :>
                           [emailRedirectTo |-> BaseUrl \o CheckedPath("OTP")])),
              routes |-> EnsureCallbackRoute(stack, inputs, "OTP")]

\* Variant for the sensitivity of C2_NextOnlyOnSuccess: the error branch
\* falls through to next()
SignInWithOTPResumeFallsThrough(ctx, resp) ==
    IF resp.kind = "throw"
    THEN Throw(ctx)
    ELSE IF resp.kind = "error"
    THEN Return(CallNext(WriteMsg(SetStatus(ctx, 400),
                         [error |-> TRUE, message |-> resp.message,
                          rawError |-> RawError(resp)],
                         "AuthError")))
    ELSE Return(CallNext(WriteMsg(ctx,
                         [success |-> TRUE, message |-> "OTP sent successfully."],
                         "Success")))

SignInWithOTPResume(ctx, resp) ==
    IF resp.kind = "throw"
    THEN Throw(ctx)
    ELSE IF resp.kind = "error"
    THEN Return(WriteMsg(SetStatus(ctx, 400),
                         [error |-> TRUE, message |-> resp.message,
                          rawError |-> RawError(resp)],
                         "AuthError"))
    ELSE Return(CallNext(WriteMsg(ctx,
                         [success |-> TRUE, message |-> "OTP sent successfully."],
                         "Success")))

SignInWithOTPResponses ==
    {RespOk("null", "null"), RespError("Signups not allowed for otp"), RespThrow}

----------------------------------------------------------------------------
(* OauthController *)

OauthStatus(inputs) ==
    [client |-> IsUndefined(inputs, "client"),
     provider |-> IsUndefined(inputs, "provider"),
     callbackURL |-> IsUndefined(inputs, "callbackURL")]

\* Variant for the sensitivity of C21_FieldBeforeResolution: the client is
\* resolved before the provider is tested
OauthControllerResolvesFirst(ctx, reg, stack) ==
    LET inputs == ctx.inputs
        keep(c) == [ctx |-> c, routes |-> stack]
    IN  IF MissingInputs(ctx)
        THEN keep(Return(WriteMsg(ctx, MissingInputsMsg, "ValidationError")))
        ELSE IF MissingStr(inputs, "client")
        THEN keep(Return(WriteMsg(ctx,
                    [error |-> TRUE, message |-> "Missing client.",
                     status |-> OauthStatus(inputs)], "ValidationError")))
        ELSE IF ConfigError(reg, PkgAuth, inputs.client) # ""
        THEN keep(Return(WriteMsg(ctx, ConfigErrorMsg(reg, PkgAuth, inputs.client),
                                  "ConfigError")))
        ELSE IF MissingStr(inputs, "provider")
        THEN keep(Return(WriteMsg(ctx,
                    [error |-> TRUE, message |-> "Missing provider.",
                     status |-> OauthStatus(inputs)], "ValidationError")))
        ELSE [ctx |-> Await(Resolved(ctx), "signInWithOAuth",
                        [provider |-> inputs.provider,
                         options |->
                           [redirectTo |->
                              IF TruthyStr(inputs, "callbackURL")
                              THEN inputs.callbackURL
                              ELSE BaseUrl \o CheckedPath(inputs.provider)]]),
              routes |-> EnsureCallbackRoute(stack, inputs, inputs.provider)]

OauthController(ctx, reg, stack) ==
    LET inputs == ctx.inputs
        keep(c) == [ctx |-> c, routes |-> stack]
    IN  IF MissingInputs(ctx)
        THEN keep(Return(WriteMsg(ctx, MissingInputsMsg, "ValidationError")))
        ELSE IF MissingStr(inputs, "client")
        THEN keep(Return(WriteMsg(ctx,
                    [error |-> TRUE, message |-> "Missing client.",
                     status |-> OauthStatus(inputs)], "ValidationError")))
        ELSE IF MissingStr(inputs, "provider")
        THEN keep(Return(WriteMsg(ctx,
                    [error |-> TRUE, message |-> "Missing provider.",
                     status |-> OauthStatus(inputs)], "ValidationError")))
        ELSE IF ConfigError(reg, PkgAuth, inputs.client) # ""
        THEN keep(Return(WriteMsg(ctx, ConfigErrorMsg(reg, PkgAuth, inputs.client),
                                  "ConfigError")))
        ELSE [ctx |-> Await(Resolved(ctx), "signInWithOAuth",
                        [provider |-> inputs.provider,
                         options |->
                           [redirectTo |->
                              IF TruthyStr(inputs, "callbackURL")
                              THEN inputs.callbackURL
                              ELSE BaseUrl \o CheckedPath(inputs.provider)]]),
              routes |-> EnsureCallbackRoute(stack, inputs, inputs.provider)]

\* OauthController as part_004 has it: the client is resolved under the
\* ecoflow-supabase package
OauthControllerPlain(ctx, reg, stack) ==
    LET inputs == ctx.inputs
        keep(c) == [ctx |-> c, routes |-> stack]
    IN  IF MissingInputs(ctx)
        THEN keep(Return(WriteMsg(ctx, MissingInputsMsg, "ValidationError")))
        ELSE IF MissingStr(inputs, "client")
        THEN keep(Return(WriteMsg(ctx,
                    [error |-> TRUE, message |-> "Missing client.",
                     status |-> OauthStatus(inputs)], "ValidationError")))
        ELSE IF MissingStr(inputs, "provider")
        THEN keep(Return(WriteMsg(ctx,
                    [error |-> TRUE, message |-> "Missing provider.",
                     status |-> OauthStatus(inputs)], "ValidationError")))
        ELSE IF ConfigError(reg, PkgPlain, inputs.client) # ""
        THEN keep(Return(WriteMsg(ctx, ConfigErrorMsg(reg, PkgPlain, inputs.client),
                                  "ConfigError")))
        ELSE [ctx |-> Await(Resolved(ctx), "signInWithOAuth",
                        [provider |-> inputs.provider,
                         options |->
                           [redirectTo |->
                              IF TruthyStr(inputs, "callbackURL")
                              THEN inputs.callbackURL
                              ELSE BaseUrl \o CheckedPath(inputs.provider)]]),
              routes |-> EnsureCallbackRoute(stack, inputs, inputs.provider)]

\* Variant for the sensitivity of C12_AuthErrorStatus: the error branch sets
\* status 400 as the other sign-in controllers do
OauthControllerResumeStatus400(ctx, resp) ==
    IF resp.kind = "throw"
    THEN Throw(ctx)
    ELSE IF resp.kind = "error"
    THEN Return(WriteMsg(SetStatus(ctx, 400),
                         [error |-> TRUE, message |-> resp.message,
                          rawError |-> RawError(resp)],
                         "AuthError"))
    ELSE Return(CallNext(WriteMsg(ctx,
                         [success |-> TRUE,
                          message |-> "Auth url generated successfully.",
                          url |-> resp.url, provider |-> resp.provider],
                         "Success")))

OauthControllerResume(ctx, resp) ==
    IF resp.kind = "throw"
    THEN Throw(ctx)
    ELSE IF resp.kind = "error"
    THEN Return(WriteMsg(ctx,
                         [error |-> TRUE, message |-> resp.message,
                          rawError |-> RawError(resp)],
                         "AuthError"))
    ELSE Return(CallNext(WriteMsg(ctx,
                         [success |-> TRUE,
                          message |-> "Auth url generated successfully.",
                          url |-> resp.url, provider |-> resp.provider],
                         "Success")))

\* signInWithOAuth answers the authorize URL of the provider it was given
OauthControllerResponses(ctx) ==
    {[kind |-> "ok", message |-> "",
      url |-> "https://project.supabase.co/auth/v1/authorize?provider=" \o
              ctx.call.args.provider,
      provider |-> ctx.call.args.provider],
     RespError("Unsupported provider"), RespThrow}

----------------------------------------------------------------------------
(* callbackController, behind the registered route *)

\* The route's first middleware: ctx.query.clientConfigID = client
InjectClient(query, layer) == ("clientConfigID" :> layer.client) @@ query

callbackController(ctx, reg) ==
    LET query == ctx.query
    IN  IF ~TruthyStr(query, "code")
        THEN Return(WriteBody(ctx, [error |-> TRUE, message |-> "No code provided"],
                              "ValidationError"))
        ELSE IF ~TruthyStr(query, "clientConfigID")
        THEN Return(WriteBody(ctx,
                              [error |-> TRUE, message |-> "Missing client Config ID."],
                              "ValidationError"))
        ELSE IF ConfigError(reg, PkgAuth, query.clientConfigID) # ""
        THEN Return(WriteBody(ctx,
                              [msg |-> ConfigErrorMsg(reg, PkgAuth, query.clientConfigID)],
                              "ConfigError"))
        ELSE Await(Resolved(ctx), "exchangeCodeForSession",
                   [code |-> query.code,
                    supabase |-> reg[PkgAuth][query.clientConfigID].configs])

\* Variant for the sensitivity of C30_ExchangeFailure: the exception of the
\* call is not caught
exchangeCodeForSessionUncaught(resp) ==
    IF resp.kind = "throw"
    THEN [kind |-> "throw"]
    ELSE [kind |-> "return",
          data |-> [user |-> resp.user, session |-> resp.session]] @@
         (IF resp.kind = "error"
          THEN "error" :> [message |-> resp.message] ELSE EmptyRec)

\* The helper around supabase.auth.exchangeCodeForSession: what it returns
\* to the controller's await.  It returns {data, error}; an exception of the
\* call is caught and returned as error, with data {user: null, session:
\* null}.  error: null is the key left out.
exchangeCodeForSession(resp) ==
    [kind |-> "return",
     data |-> [user |-> resp.user, session |-> resp.session]] @@
    (IF resp.kind \in {"error", "throw"}
     THEN "error" :> [message |-> resp.message] ELSE EmptyRec)

\* The controller after `await exchangeCodeForSession(supabase, code)`: a
\* rejection of the helper would be thrown on from the await
callbackControllerResume(ctx, ret) ==
    IF ret.kind = "throw"
    THEN Throw(ctx)
    ELSE IF Has(ret, "error")
    THEN Return(WriteBody(ctx,
                          [msg |-> [error |-> TRUE, message |-> ret.error.message,
                                    rawError |-> ret.error]],
                          "AuthError"))
    ELSE Return(WriteBody(ctx,
                          [msg |-> [success |-> TRUE,
                                    message |-> "Authentication successful",
                                    user |-> ret.data.user,
                                    session |-> ret.data.session,
                                    userMetadata |-> UserMetadata(ret.data.user)] @@
                                   (IF TruthyStr(ctx.query, "next")
                                    THEN "redirect_url" :> ctx.query.next
                                    ELSE EmptyRec)],
                          "Success"))

callbackControllerResponses ==
    {RespOk("u1", "s1"), RespError("invalid flow state"), RespThrow}

----------------------------------------------------------------------------
(* OauthIsAuthenticated *)

\* An Authorization header is held as its parts between single spaces:
\* "Bearer t1" is <<"Bearer", "t1">>, "" is <<"">>.  split(" ") lists them.
SplitSpace(header) == header

\* Variant for the sensitivity of C14_MissingToken: the first part of the
\* header, the scheme, is taken for the token
BearerScheme(headers) ==
    IF Has(headers, "authorization") /\ Len(SplitSpace(headers.authorization)) >= 1
    THEN "token" :> SplitSpace(headers.authorization)[1]
    ELSE EmptyRec

\* request.headers.authorization?.split(" ")[1]
BearerToken(headers) ==
    IF Has(headers, "authorization") /\ Len(SplitSpace(headers.authorization)) >= 2
    THEN "token" :> SplitSpace(headers.authorization)[2]
    ELSE EmptyRec

MissingTokenMsg ==
    [authenticated |-> FALSE, message |-> "Missing or invalid authorization token"]

OauthIsAuthenticated(ctx, reg) ==
    LET inputs == ctx.inputs
        token == BearerToken(ctx.headers)
    IN  IF MissingInputs(ctx)
        THEN Return(WriteMsg(ctx, MissingInputsMsg, "ValidationError"))
        ELSE IF MissingStr(inputs, "client")
        THEN Return(WriteMsg(ctx, MissingClientMsg(inputs), "ValidationError"))
        ELSE IF ConfigError(reg, PkgPlain, inputs.client) # ""
        THEN Return(WriteMsg(ctx, ConfigErrorMsg(reg, PkgPlain, inputs.client),
                             "ConfigError"))
        ELSE IF MissingStr(token, "token")
        THEN Return(WriteMsg(SetStatus(ctx, 401), MissingTokenMsg, "ValidationError"))
        ELSE Await(Resolved(ctx), "getUser", [jwt |-> token.token])

\* Variant for the sensitivity of C4_NextOnAuthenticated: next() on user null
OauthIsAuthenticatedResumeContinues(ctx, resp) ==
    IF resp.kind = "throw"
    THEN Throw(ctx)
    ELSE IF resp.kind = "error"
    THEN Return(WriteMsg(SetStatus(ctx, 401),
                         [authenticated |-> FALSE, message |-> resp.message,
                          rawError |-> RawError(resp)],
                         "AuthError"))
    ELSE IF resp.user # "null"
    THEN Return(CallNext(WriteMsg(ctx,
                         [authenticated |-> TRUE, user |-> resp.user], "Success")))
    ELSE Return(CallNext(WriteMsg(SetStatus(ctx, 401),
                         [authenticated |-> FALSE, user |-> "null"], "Failure")))

OauthIsAuthenticatedResume(ctx, resp) ==
    IF resp.kind = "throw"
    THEN Throw(ctx)
    ELSE IF resp.kind = "error"
    THEN Return(WriteMsg(SetStatus(ctx, 401),
                         [authenticated |-> FALSE, message |-> resp.message,
                          rawError |-> RawError(resp)],
                         "AuthError"))
    ELSE IF resp.user # "null"
    THEN Return(CallNext(WriteMsg(ctx,
                         [authenticated |-> TRUE, user |-> resp.user], "Success")))
    ELSE Return(WriteMsg(SetStatus(ctx, 401),
                         [authenticated |-> FALSE, user |-> "null"], "Failure"))

OauthIsAuthenticatedResponses ==
    {RespOk("u1", "null"), RespOk("null", "null"),
     RespError("invalid JWT"), RespThrow}

----------------------------------------------------------------------------
(* OauthIsAuthenticated as it was before client configurations: the client *)
(* is built from projectURL and an API key on every invocation             *)

\* process.env
Env ==
    [ECOFLOW_USER_SUPABASE_API_KEY |-> "env-anon-key",
     ECOFLOW_USER_KEY2 |-> "env-key-2",
     ECOFLOW_USER_EMPTY |-> ""]

\* Variant for the sensitivity of C16_ApiKeyResolution: apiKeyFromEnv is not
\* looked at
SupabaseApiKeyLiteral(inputs) ==
    IF IsUndefined(inputs, "apiKey")
    THEN Field("supabaseApiKey", Env, "ECOFLOW_USER_SUPABASE_API_KEY")
    ELSE "supabaseApiKey" :> inputs.apiKey

\* _.isUndefined(apiKey) ? process.env.ECOFLOW_USER_SUPABASE_API_KEY
\*   : apiKeyFromEnv ? process.env[apiKey] : apiKey
SupabaseApiKey(inputs) ==
    IF IsUndefined(inputs, "apiKey")
    THEN Field("supabaseApiKey", Env, "ECOFLOW_USER_SUPABASE_API_KEY")
    ELSE IF TruthyFlag(inputs, "apiKeyFromEnv")
    THEN Field("supabaseApiKey", Env, inputs.apiKey)
    ELSE "supabaseApiKey" :> inputs.apiKey

ProjectStatus(inputs) ==
    [projectURL |-> IsUndefined(inputs, "projectURL"),
     apiKey |-> IsUndefined(inputs, "apiKey"),
     apiKeyFromEnv |-> IsUndefined(inputs, "apiKeyFromEnv"),
     provider |-> IsUndefined(inputs, "provider")]

OauthIsAuthenticatedByProject(ctx) ==
    LET inputs == ctx.inputs
        key == SupabaseApiKey(inputs)
        token == BearerToken(ctx.headers)
        keyStatus == ProjectStatus(inputs) @@
                     [supabaseApiKey |-> IsUndefined(key, "supabaseApiKey")]
    IN  IF MissingInputs(ctx)
        THEN Return(WriteMsg(ctx, MissingInputsMsg, "ValidationError"))
        ELSE IF MissingStr(inputs, "projectURL")
        THEN Return(WriteMsg(ctx,
                    [error |-> TRUE, message |-> "Missing project URL.",
                     status |-> ProjectStatus(inputs)], "ValidationError"))
        ELSE IF IsUndefined(key, "supabaseApiKey")
        THEN Return(WriteMsg(ctx,
                    [error |-> TRUE, message |-> "Missing API Key.",
                     status |-> keyStatus], "ValidationError"))
        ELSE IF MissingStr(inputs, "provider")
        THEN Return(WriteMsg(ctx,
                    [error |-> TRUE, message |-> "Missing provider.",
                     status |-> keyStatus], "ValidationError"))
        ELSE IF MissingStr(token, "token")
        THEN Return(WriteMsg(SetStatus(ctx, 401), MissingTokenMsg, "ValidationError"))
        ELSE Await(Resolved(ctx), "getUser", [jwt |-> token.token])

OauthIsAuthenticatedByProjectResume(ctx, resp) ==
    IF resp.kind = "throw"
    THEN Throw(ctx)
    ELSE IF resp.kind = "error"
    THEN Return(WriteMsg(SetStatus(ctx, 401),
                         [authenticated |-> FALSE, message |-> resp.message,
                          rawError |-> RawError(resp)],
                         "AuthError"))
    ELSE IF resp.user # "null"
    THEN Return(CallNext(WriteMsg(ctx,
                         [authenticated |-> TRUE, user |-> resp.user], "Success")))
    ELSE Return(CallNext(WriteMsg(SetStatus(ctx, 401),
                         [authenticated |-> FALSE, user |-> "null"], "Failure")))

----------------------------------------------------------------------------
(* refreshSession *)

\* Variant for the sensitivity of C25_TokenSource: passByPayload is not looked
\* at
RefreshTokenOfLiteral(inputs, payload) ==
    Field("token", inputs, "refreshToken")

\* passByPayload ? payload[refreshToken] : refreshToken
RefreshTokenOf(inputs, payload) ==
    IF TruthyFlag(inputs, "passByPayload")
    THEN IF Has(inputs, "refreshToken")
         THEN Field("token", payload, inputs.refreshToken)
         ELSE Field("token", payload, "undefined")
    ELSE Field("token", inputs, "refreshToken")

refreshSession(ctx, reg) ==
    LET inputs == ctx.inputs
        token == RefreshTokenOf(inputs, ctx.payload)
    IN  IF MissingInputs(ctx)
        THEN Return(WriteMsg(ctx, MissingInputsMsg, "ValidationError"))
        ELSE IF MissingStr(inputs, "client")
        THEN Return(WriteMsg(ctx, MissingClientMsg(inputs), "ValidationError"))
        ELSE IF MissingStr(token, "token")
        THEN Return(WriteMsg(ctx,
                    [error |-> TRUE,
                     message |-> "Missing or invalid refresh token.",
                     status |-> [client |-> IsUndefined(inputs, "client"),
                                 refreshToken |-> IsUndefined(inputs, "refreshToken"),
                                 passByPayload |-> IsUndefined(inputs, "passByPayload")]
                                @@ Field("actualToken", token, "token")],
                    "ValidationError"))
        ELSE IF ConfigError(reg, PkgAuth, inputs.client) # ""
        THEN Return(WriteMsg(ctx, ConfigErrorMsg(reg, PkgAuth, inputs.client),
                             "ConfigError"))
        ELSE Await(Resolved(ctx), "refreshSession", [refresh_token |-> token.token])

\* Variant for the sensitivity of C3_OneOutcome: no fallback after the
\* session test
refreshSessionResumeNoFallback(ctx, resp) ==
    IF resp.kind = "throw"
    THEN Throw(ctx)
    ELSE IF resp.kind = "error"
    THEN Return(WriteMsg(SetStatus(ctx, 404),
                         [message |-> resp.message, rawError |-> RawError(resp)],
                         "AuthError"))
    ELSE IF resp.session # "null" /\ resp.user # "null"
    THEN Return(CallNext(WriteMsg(ctx,
                         [authenticated |-> TRUE,
                          user |-> resp.user, session |-> resp.session,
                          accessToken |-> AccessToken(resp.session),
                          refreshToken |-> RefreshToken(resp.session)],
                         "Success")))
    ELSE Return(ctx)

\* Variant for the sensitivity of C15_RefreshSuccess: the two tokens of the
\* session change places
refreshSessionResumeSwapped(ctx, resp) ==
    IF resp.kind = "throw"
    THEN Throw(ctx)
    ELSE IF resp.kind = "error"
    THEN Return(WriteMsg(SetStatus(ctx, 404),
                         [message |-> resp.message, rawError |-> RawError(resp)],
                         "AuthError"))
    ELSE IF resp.session # "null" /\ resp.user # "null"
    THEN Return(CallNext(WriteMsg(ctx,
                         [authenticated |-> TRUE,
                          user |-> resp.user, session |-> resp.session,
                          accessToken |-> RefreshToken(resp.session),
                          refreshToken |-> AccessToken(resp.session)],
                         "Success")))
    ELSE Return(WriteMsg(ctx,
                         [error |-> TRUE, message |-> "Failed to refresh session"],
                         "Failure"))

\* Variant for the sensitivity of C29_FailedRefresh: only the session is
\* tested
refreshSessionResumeSessionOnly(ctx, resp) ==
    IF resp.kind = "throw"
    THEN Throw(ctx)
    ELSE IF resp.kind = "error"
    THEN Return(WriteMsg(SetStatus(ctx, 404),
                         [message |-> resp.message, rawError |-> RawError(resp)],
                         "AuthError"))
    ELSE IF resp.session # "null"
    THEN Return(CallNext(WriteMsg(ctx,
                         [authenticated |-> TRUE,
                          user |-> resp.user, session |-> resp.session,
                          accessToken |-> AccessToken(resp.session),
                          refreshToken |-> RefreshToken(resp.session)],
                         "Success")))
    ELSE Return(WriteMsg(ctx,
                         [error |-> TRUE, message |-> "Failed to refresh session"],
                         "Failure"))

refreshSessionResume(ctx, resp) ==
    IF resp.kind = "throw"
    THEN Throw(ctx)
    ELSE IF resp.kind = "error"
    THEN Return(WriteMsg(SetStatus(ctx, 404),
                         [message |-> resp.message, rawError |-> RawError(resp)],
                         "AuthError"))
    ELSE IF resp.session # "null" /\ resp.user # "null"
    THEN Return(CallNext(WriteMsg(ctx,
                         [authenticated |-> TRUE,
                          user |-> resp.user, session |-> resp.session,
                          accessToken |-> AccessToken(resp.session),
                          refreshToken |-> RefreshToken(resp.session)],
                         "Success")))
    ELSE Return(WriteMsg(ctx,
                         [error |-> TRUE, message |-> "Failed to refresh session"],
                         "Failure"))

\* refreshSession as it was before client configurations: the client is built
\* from projectURL and an API key on every invocation
RefreshProjectStatus(inputs) ==
    [projectURL |-> IsUndefined(inputs, "projectURL"),
     apiKey |-> IsUndefined(inputs, "apiKey"),
     apiKeyFromEnv |-> IsUndefined(inputs, "apiKeyFromEnv"),
     refreshToken |-> IsUndefined(inputs, "refreshToken"),
     passByPayload |-> IsUndefined(inputs, "passByPayload")]

refreshSessionByProject(ctx) ==
    LET inputs == ctx.inputs
        key == SupabaseApiKey(inputs)
        token == RefreshTokenOf(inputs, ctx.payload)
        keyStatus == RefreshProjectStatus(inputs) @@
                     [supabaseApiKey |-> IsUndefined(key, "supabaseApiKey")]
    IN  IF MissingInputs(ctx)
        THEN Return(WriteMsg(ctx, MissingInputsMsg, "ValidationError"))
        ELSE IF MissingStr(inputs, "projectURL")
        THEN Return(WriteMsg(ctx,
                    [error |-> TRUE, message |-> "Missing project URL.",
                     status |-> RefreshProjectStatus(inputs)], "ValidationError"))
        ELSE IF IsUndefined(key, "supabaseApiKey")
        THEN Return(WriteMsg(ctx,
                    [error |-> TRUE, message |-> "Missing API Key.",
                     status |-> keyStatus], "ValidationError"))
        ELSE IF MissingStr(token, "token")
        THEN Return(WriteMsg(ctx,
                    [error |-> TRUE,
                     message |-> "Missing or invalid refresh token.",
                     status |-> keyStatus], "ValidationError"))
        ELSE Await(Resolved(ctx), "refreshSession", [refresh_token |-> token.token])

refreshSessionByProjectResume(ctx, resp) ==
    IF resp.kind = "throw"
    THEN Throw(ctx)
    ELSE IF resp.kind = "error"
    THEN Return(WriteMsg(SetStatus(ctx, 404),
                         [message |-> resp.message, rawError |-> RawError(resp)],
                         "AuthError"))
    ELSE IF resp.session # "null" /\ resp.user # "null"
    THEN Return(CallNext(WriteMsg(ctx,
                         [authenticated |-> TRUE,
                          user |-> resp.user, session |-> resp.session,
                          accessToken |-> AccessToken(resp.session),
                          refreshToken |-> RefreshToken(resp.session)],
                         "Success")))
    ELSE Return(WriteMsg(ctx,
                         [error |-> TRUE, message |-> "Failed to refresh session"],
                         "Failure"))

refreshSessionResponses ==
    {RespOk("u1", "s1"), RespOk("null", "null"), RespOk("u1", "null"),
     RespOk("null", "s1"), RespError("Invalid Refresh Token"), RespThrow}

----------------------------------------------------------------------------
(* What the host hands to the controllers *)

Opt(name, vals) == {EmptyRec} \cup {name :> v : v \in vals}

\* payload as the upstream steps left it
MsgCreds == [email |-> "m@b.com", phone |-> "+1999", password |-> "pw-m"]

UserCreds ==
    [email |-> "u@b.com", phone |-> "+1777", password |-> "pw-u",
     captchaToken |-> "captcha-u",
     uData |-> [value |-> "{\"role\":\"admin\"}", validate |-> TRUE]]

Payloads == {EmptyRec, [msg |-> MsgCreds], [user |-> UserCreds]}

LiteralCreds == [email |-> "a@b.com", password |-> "pw"]

\* inputs undefined, and inputs = {}
NoInputCtxs(kind) ==
    {Ctx(kind, h, EmptyRec, [msg |-> MsgCreds], EmptyRec, EmptyRec) : h \in BOOLEAN}

WithInputs(kind, inputs, payloads) ==
    {Ctx(kind, TRUE, i, p, EmptyRec, EmptyRec) : i \in inputs, p \in payloads}

FromPayloadInputs ==
    {[client |-> "c1"] @@ f @@ k :
        f \in Opt("fromPayload", {TRUE}), k \in Opt("payloadKey", {"", "user"})}

SignInWithPasswordCtxs ==
    NoInputCtxs("SignInWithPassword") \cup
    WithInputs("SignInWithPassword",
               {c @@ LiteralCreds : c \in Opt("client", {"", "c1", "c3", "c4"})},
               {[msg |-> MsgCreds]}) \cup
    WithInputs("SignInWithPassword", FromPayloadInputs, Payloads)

SignupCtxs ==
    NoInputCtxs("Signup") \cup
    WithInputs("Signup",
               {c @@ LiteralCreds : c \in Opt("client", {"", "c1", "c3", "c4"})} \cup
               {[client |-> "c1", Phone |-> "+1555", password |-> "pw",
                 uData |-> [value |-> v, validate |-> TRUE]] :
                    v \in {"{\"role\":\"admin\"}", "{role"}},
               {[msg |-> MsgCreds]}) \cup
    WithInputs("Signup", FromPayloadInputs, Payloads)

SignupRawDataCtxs ==
    NoInputCtxs("SignupRawData") \cup
    WithInputs("SignupRawData",
               {c @@ LiteralCreds : c \in Opt("client", {"", "c1", "c3"})} \cup
               {[client |-> "c1", Phone |-> "+1555", password |-> "pw",
                 uData |-> [plan |-> "free"]]},
               {[msg |-> MsgCreds]}) \cup
    WithInputs("SignupRawData",
               {[client |-> "c1", fromPayload |-> TRUE] @@ k :
                    k \in Opt("payloadKey", {"user"})},
               Payloads)

SignInWithOTPCtxs ==
    NoInputCtxs("SignInWithOTP") \cup
    WithInputs("SignInWithOTP",
               {c @@ [email |-> "a@b.com"] :
                    c \in Opt("client", {"", "c1", "c3", "c4"})} \cup
               {[client |-> "c1", Phone |-> "+1555", callbackURL |-> u] :
                    u \in {"", "https://app/otp"}},
               {[msg |-> MsgCreds]}) \cup
    WithInputs("SignInWithOTP", FromPayloadInputs, Payloads)

OauthControllerCtxs ==
    NoInputCtxs("OauthController") \cup
    WithInputs("OauthController",
               {c @@ [provider |-> "github"] :
                    c \in Opt("client", {"", "c1", "c3", "c4"})} \cup
               {[client |-> "c1"] @@ p : p \in Opt("provider", {""})} \cup
               {[client |-> "c1", provider |-> "github", callbackURL |-> u] :
                    u \in {"", "https://app/cb"}} \cup
               {[provider |-> "github", callbackURL |-> "https://app/cb"]},
               {EmptyRec})

OauthControllerPlainCtxs ==
    NoInputCtxs("OauthControllerPlain") \cup
    WithInputs("OauthControllerPlain",
               {c @@ [provider |-> "github"] : c \in Opt("client", {"c1", "c4"})} \cup
               {[client |-> "c1"],
                [client |-> "c1", provider |-> "github",
                 callbackURL |-> "https://app/cb"]},
               {EmptyRec})

AuthHeaders ==
    {EmptyRec} \cup
    {[authorization |-> h] :
        h \in {<<"">>, <<"Bearer">>, <<"Bearer", "">>, <<"Bearer", "jwt1">>}}

OauthIsAuthenticatedCtxs ==
    NoInputCtxs("OauthIsAuthenticated") \cup
    {Ctx("OauthIsAuthenticated", TRUE, c @@ [scope |-> "flow"], EmptyRec,
         [authorization |-> <<"Bearer", "jwt1">>], EmptyRec) :
        c \in Opt("client", {"", "c1", "c3", "c4"})} \cup
    {Ctx("OauthIsAuthenticated", TRUE, [client |-> "c1"], EmptyRec, h, EmptyRec) :
        h \in AuthHeaders}

OauthIsAuthenticatedByProjectCtxs ==
    NoInputCtxs("OauthIsAuthenticatedByProject") \cup
    {Ctx("OauthIsAuthenticatedByProject", TRUE,
         [projectURL |-> "https://project.supabase.co", provider |-> "github"] @@ k @@ e,
         EmptyRec, [authorization |-> <<"Bearer", "jwt1">>], EmptyRec) :
        k \in Opt("apiKey", {"anon-key", "ECOFLOW_USER_UNSET"}),
        e \in Opt("apiKeyFromEnv", {TRUE})} \cup
    {Ctx("OauthIsAuthenticatedByProject", TRUE,
         [projectURL |-> "https://project.supabase.co"] @@ p, EmptyRec, h, EmptyRec) :
        p \in Opt("provider", {"", "github"}),
        h \in {EmptyRec, [authorization |-> <<"Bearer", "jwt1">>]}} \cup
    {Ctx("OauthIsAuthenticatedByProject", TRUE, u @@ [provider |-> "github"],
         EmptyRec, EmptyRec, EmptyRec) :
        u \in Opt("projectURL", {""})}

refreshSessionCtxs ==
    NoInputCtxs("refreshSession") \cup
    WithInputs("refreshSession",
               {c @@ [refreshToken |-> "rt-literal"] :
                    c \in Opt("client", {"", "c1", "c3", "c4"})} \cup
               {[client |-> "c1"] @@ t @@ b :
                    t \in Opt("refreshToken", {"", "rt-literal", "rtKey"}),
                    b \in Opt("passByPayload", {TRUE})} \cup
               {[client |-> "c1", refreshToken |-> "rtKey",
                 passByPayload |-> FALSE]},
               {[rtKey |-> "rt-from-payload"], [rtKey |-> ""]})

refreshSessionByProjectCtxs ==
    NoInputCtxs("refreshSessionByProject") \cup
    WithInputs("refreshSessionByProject",
               {[projectURL |-> "https://project.supabase.co",
                 apiKey |-> "anon-key", refreshToken |-> "rt-literal"],
                [projectURL |-> "https://project.supabase.co",
                 apiKey |-> "anon-key"],
                [projectURL |-> "https://project.supabase.co",
                 apiKey |-> "ECOFLOW_USER_UNSET", apiKeyFromEnv |-> TRUE,
                 refreshToken |-> "rt-literal"],
                [client |-> "c1", refreshToken |-> "rt-literal"]},
               {EmptyRec}) \cup
    WithInputs("refreshSessionByProject",
               {[projectURL |-> "https://project.supabase.co",
                 refreshToken |-> "rtKey", passByPayload |-> TRUE]},
               {[rtKey |-> "rt-from-payload"], [rtKey |-> ""]})

\* the query of a request to a callback route, before the route's middleware
CallbackQueries ==
    {c @@ n : c \in Opt("code", {"code1"}), n \in Opt("next", {"/home"})}

\* the sign-in flows whose callback routes are at stake in SpecRoutes
RouteOauthCtxs ==
    WithInputs("OauthController",
               {[client |-> "c1", provider |-> "github"] @@ u :
                    u \in Opt("callbackURL", {"", "https://app/cb"})} \cup
               {[client |-> "c2", provider |-> "github"],
                [provider |-> "github"], [client |-> "c1"],
                [client |-> "c4", provider |-> "github"]},
               {EmptyRec})

RouteOTPCtxs ==
    WithInputs("SignInWithOTP",
               {[client |-> "c1", email |-> "a@b.com"] @@ u :
                    u \in Opt("callbackURL", {"https://app/otp"})} \cup
               {[email |-> "a@b.com"], [client |-> "c3", email |-> "a@b.com"]},
               {EmptyRec})

----------------------------------------------------------------------------
(* Invocations: one step per synchronous segment *)

\* The function suspended at its await: ctx is the object the host handed
\* in, and it holds inputs, payload, headers and query when the function
\* resumes.
Suspend(ctx) == ctx

\* the suspended function as it resumes with the answer r of its call
Segment(k, r) == [k EXCEPT !.phase = "resume", !.resp = r]

IsSignIn(ctx) ==
    ctx.kind \in {"OauthController", "OauthControllerPlain", "SignInWithOTP"}

Flow(ctx) == IF ctx.kind = "SignInWithOTP" THEN "OTP" ELSE ctx.inputs.provider

\* options.redirectTo / options.emailRedirectTo of the sign-in call
RedirectTarget(ctx) ==
    IF ctx.kind = "SignInWithOTP"
    THEN ctx.call.args.options.emailRedirectTo
    ELSE ctx.call.args.options.redirectTo

\* a sign-in whose callbackURL is unset or empty: it ran the route registrar
UnsetCallbackURL(ctx) ==
    IsSignIn(ctx) /\ ctx.pc = "awaiting" /\ MissingStr(ctx.inputs, "callbackURL")

\* a sign-in that left for the provider with the module's own callback route
\* as redirect target
DefaultSignIn(ctx) ==
    /\ IsSignIn(ctx) /\ ctx.pc = "awaiting"
    /\ RedirectTarget(ctx) = BaseUrl \o CheckedPath(Flow(ctx))

\* The synchronous segment ran to r.ctx and left the route table r.routes
Started(r, max) ==
    /\ r.ctx.pc = "awaiting" => BagCardinality(inflight) < max
    /\ last' = r.ctx
    /\ routes' = r.routes
    /\ inflight' = IF r.ctx.pc = "awaiting"
                   THEN inflight (+) SetToBag({Suspend(r.ctx)})
                   ELSE inflight
    /\ signins' = IF DefaultSignIn(r.ctx)
                  THEN signins \cup {<<r.ctx.inputs.client, Flow(r.ctx),
                                        MissingStr(r.ctx.inputs, "callbackURL")>>}
                  ELSE signins
    /\ registry' = IF "global" \in DOMAIN r
                   THEN [registry EXCEPT !.global = r.global]
                   ELSE registry

\* The call of k answered and the function ran to its end c
Resumed(k, c) ==
    /\ last' = c
    /\ inflight' = inflight (-) SetToBag({k})
    /\ UNCHANGED <<routes, registry, signins>>

Suspended(kind) == {k \in BagToSet(inflight) : k.kind = kind}

InvokeSignInWithPassword(max) ==
    \E c \in SignInWithPasswordCtxs :
        Started([ctx |-> SignInWithPassword(c, registry), routes |-> routes], max)

ResumeSignInWithPassword ==
    \E k \in Suspended("SignInWithPassword"), r \in SignInWithPasswordResponses :
        Resumed(k, SignInWithPasswordResume(Segment(k, r), r))

InvokeSignup(max) ==
    \E c \in SignupCtxs :
        Started([ctx |-> Signup(c, registry), routes |-> routes], max)

ResumeSignup ==
    \E k \in Suspended("Signup"), r \in SignupResponses :
        Resumed(k, SignupResume(Segment(k, r), r))

InvokeSignupRawData(max) ==
    \E c \in SignupRawDataCtxs :
        Started([ctx |-> SignupRawData(c, registry), routes |-> routes], max)

ResumeSignupRawData ==
    \E k \in Suspended("SignupRawData"), r \in SignupResponses :
        Resumed(k, SignupRawDataResume(Segment(k, r), r))

InvokeSignInWithOTP(S, max) ==
    \E c \in S : Started(SignInWithOTP(c, registry, routes), max)

ResumeSignInWithOTP ==
    \E k \in Suspended("SignInWithOTP"), r \in SignInWithOTPResponses :
        Resumed(k, SignInWithOTPResume(Segment(k, r), r))

InvokeOauthController(S, max) ==
    \E c \in S : Started(OauthController(c, registry, routes), max)

ResumeOauthController ==
    \E k \in Suspended("OauthController") :
        \E r \in OauthControllerResponses(k) :
            Resumed(k, OauthControllerResume(Segment(k, r), r))

InvokeOauthControllerPlain(max) ==
    \E c \in OauthControllerPlainCtxs :
        Started(OauthControllerPlain(c, registry, routes), max)

ResumeOauthControllerPlain ==
    \E k \in Suspended("OauthControllerPlain") :
        \E r \in OauthControllerResponses(k) :
            Resumed(k, OauthControllerResume(Segment(k, r), r))

InvokeRefreshSessionByProject(max) ==
    \E c \in refreshSessionByProjectCtxs :
        Started([ctx |-> refreshSessionByProject(c), routes |-> routes], max)

ResumeRefreshSessionByProject ==
    \E k \in Suspended("refreshSessionByProject") :
        \E r \in refreshSessionResponses :
            Resumed(k, refreshSessionByProjectResume(Segment(k, r), r))

InvokeOauthIsAuthenticated(max) ==
    \E c \in OauthIsAuthenticatedCtxs :
        Started([ctx |-> OauthIsAuthenticated(c, registry), routes |-> routes], max)

ResumeOauthIsAuthenticated ==
    \E k \in Suspended("OauthIsAuthenticated"), r \in OauthIsAuthenticatedResponses :
        Resumed(k, OauthIsAuthenticatedResume(Segment(k, r), r))

InvokeOauthIsAuthenticatedByProject(max) ==
    \E c \in OauthIsAuthenticatedByProjectCtxs :
        Started([ctx |-> OauthIsAuthenticatedByProject(c), routes |-> routes], max)

ResumeOauthIsAuthenticatedByProject ==
    \E k \in Suspended("OauthIsAuthenticatedByProject"),
       r \in OauthIsAuthenticatedResponses :
        Resumed(k, OauthIsAuthenticatedByProjectResume(Segment(k, r), r))

InvokeRefreshSession(max) ==
    \E c \in refreshSessionCtxs :
        Started([ctx |-> refreshSession(c, registry), routes |-> routes], max)

ResumeRefreshSession ==
    \E k \in Suspended("refreshSession"), r \in refreshSessionResponses :
        Resumed(k, refreshSessionResume(Segment(k, r), r))

\* The first layer of the stack that serves GET path
Dispatch(stack, path) ==
    stack[CHOOSE i \in 1..Len(stack) :
            /\ stack[i].path = path /\ "GET" \in stack[i].methods
            /\ \A j \in 1..(i - 1) :
                  ~(stack[j].path = path /\ "GET" \in stack[j].methods)]

\* The provider sends the browser of sign-in s back to the callback route of
\* its flow: the route's middleware, then callbackController.
CallbackRequest(max) ==
    \E s \in signins, q \in CallbackQueries :
        LET path == CheckedPath(s[2])
        IN  /\ RoutePresent(routes, path)
            /\ Started([ctx |-> callbackController(
                         [Ctx("callbackController", TRUE, EmptyRec, EmptyRec, EmptyRec,
                              InjectClient(q, Dispatch(routes, path)))
                            EXCEPT !.path = path, !.origin = s[1]],
                         registry),
                        routes |-> routes], max)

\* The call of the helper answers: the helper runs to its return, the
\* controller stays suspended at its own await for one more turn
ExchangeAnswered ==
    \E k \in Suspended("callbackController"), r \in callbackControllerResponses :
        /\ k.ret = EmptyRec
        /\ LET h == [k EXCEPT !.phase = "helper", !.resp = r,
                              !.ret = exchangeCodeForSession(r)]
           IN  /\ last' = h
               /\ inflight' = (inflight (-) SetToBag({k})) (+) SetToBag({h})
        /\ UNCHANGED <<routes, registry, signins>>

\* The controller resumes with what the helper returned
ResumeCallback ==
    \E k \in Suspended("callbackController") :
        /\ k.ret # EmptyRec
        /\ Resumed(k, callbackControllerResume([k EXCEPT !.phase = "resume"], k.ret))

----------------------------------------------------------------------------
(* The module in a host: every controller, MaxInFlight calls in flight *)

Init ==
    /\ routes = <<>>
    /\ registry \in Registries
    /\ inflight = EmptyBag
    /\ last = Idle
    /\ signins = {}

Next ==
    \/ InvokeSignInWithPassword(MaxInFlight)
    \/ ResumeSignInWithPassword
    \/ InvokeSignup(MaxInFlight)
    \/ ResumeSignup
    \/ InvokeSignupRawData(MaxInFlight)
    \/ ResumeSignupRawData
    \/ InvokeSignInWithOTP(SignInWithOTPCtxs, MaxInFlight)
    \/ ResumeSignInWithOTP
    \/ InvokeOauthController(OauthControllerCtxs, MaxInFlight)
    \/ ResumeOauthController
    \/ InvokeOauthControllerPlain(MaxInFlight)
    \/ ResumeOauthControllerPlain
    \/ InvokeOauthIsAuthenticated(MaxInFlight)
    \/ ResumeOauthIsAuthenticated
    \/ InvokeOauthIsAuthenticatedByProject(MaxInFlight)
    \/ ResumeOauthIsAuthenticatedByProject
    \/ InvokeRefreshSession(MaxInFlight)
    \/ ResumeRefreshSession
    \/ InvokeRefreshSessionByProject(MaxInFlight)
    \/ ResumeRefreshSessionByProject
    \/ CallbackRequest(MaxInFlight)
    \/ ExchangeAnswered
    \/ ResumeCallback

Spec == Init /\ [][Next]_vars

(* The sign-in flows and their callback routes, MaxConcurrent calls in flight *)

InitRoutes ==
    /\ routes = <<>>
    /\ registry = (PkgAuth :> Manager) @@ (PkgPlain :> Manager)
    /\ inflight = EmptyBag
    /\ last = Idle
    /\ signins = {}

NextRoutes ==
    \/ InvokeSignInWithOTP(RouteOTPCtxs, MaxConcurrent)
    \/ ResumeSignInWithOTP
    \/ InvokeOauthController(RouteOauthCtxs, MaxConcurrent)
    \/ ResumeOauthController
    \/ CallbackRequest(MaxConcurrent)
    \/ ExchangeAnswered
    \/ ResumeCallback

SpecRoutes == InitRoutes /\ [][NextRoutes]_vars

----------------------------------------------------------------------------
(* Properties *)

\* `last` is the invocation whose segment ran in the latest step
OauthKinds == {"OauthController", "OauthControllerPlain"}

RefreshKinds == {"refreshSession", "refreshSessionByProject"}

\* the controllers that take projectURL and an API key, and no client
ByProject == {"OauthIsAuthenticatedByProject", "refreshSessionByProject"}

Pipeline ==
    {"SignInWithPassword", "Signup", "SignupRawData", "SignInWithOTP",
     "OauthIsAuthenticated", "OauthIsAuthenticatedByProject"}
    \cup OauthKinds \cup RefreshKinds

Msg(ctx) == Sub(ctx.payload, "msg")

\* C1: a controller invoked with inputs undefined or empty ends with
\* payload.msg = {error: true, message: "Missing inputs."}, has issued no
\* external call and has not invoked next.
C1_MissingInputs ==
    (/\ last.kind \in Pipeline
     /\ last.phase = "sync"
     /\ (~last.hasInputs \/ last.inputs = EmptyRec))
    => /\ last.pc = "returned"
       /\ Msg(last) = [error |-> TRUE, message |-> "Missing inputs."]
       /\ last.calls = 0
       /\ last.nexts = 0

C1_Witness ==
    /\ last.kind = "OauthController"
    /\ last.phase = "sync"
    /\ last.hasInputs /\ last.inputs = EmptyRec
    /\ last.pc = "returned"
    /\ Msg(last) = [error |-> TRUE, message |-> "Missing inputs."]

\* C2: password sign-in, sign-up, OTP sign-in, OAuth sign-in and refresh
\* session invoke next at most once, and only with a Success outcome in
\* payload.msg: never after a ValidationError, a configuration error or an
\* AuthError.
C2_NextOnlyOnSuccess ==
    last.kind \in {"SignInWithPassword", "Signup", "SignupRawData",
                   "SignInWithOTP"} \cup OauthKinds \cup RefreshKinds
    => /\ last.nexts <= 1
       /\ last.nexts = 1 =>
            /\ last.outcome = "Success"
            /\ ~Has(Msg(last), "error")
       /\ last.outcome \in {"ValidationError", "ConfigError", "AuthError"} =>
            last.nexts = 0

C2_Witness ==
    /\ last.kind = "SignInWithOTP"
    /\ last.phase = "resume"
    /\ last.pc = "returned"
    /\ last.outcome = "AuthError"
    /\ Msg(last).error
    /\ last.nexts = 0

\* C3: a controller invocation that has returned has written payload.msg
\* exactly once.
C3_OneOutcome ==
    (last.kind \in Pipeline /\ last.pc = "returned")
    => /\ last.writes = 1
       /\ Has(last.payload, "msg")
       /\ last.outcome # "none"

C3_Witness ==
    /\ last.kind = "refreshSession"
    /\ last.phase = "resume"
    /\ last.pc = "returned"
    /\ last.outcome = "Failure"
    /\ last.writes = 1

\* C4 (as the code has it): the authentication check invokes next when getUser
\* reports a user; when getUser returns an error it sets status 401, writes
\* authenticated: false and does not invoke next; when getUser returns no
\* error and a null user it sets status 401 and writes authenticated: false,
\* and only the controller built from projectURL invokes next.
C4_NextOnAuthenticated ==
    (/\ last.kind \in {"OauthIsAuthenticated", "OauthIsAuthenticatedByProject"}
     /\ last.phase = "resume"
     /\ last.pc = "returned")
    => /\ Msg(last).authenticated => last.nexts = 1
       /\ ~Msg(last).authenticated =>
            /\ last.status = 401
            /\ last.nexts = IF /\ last.kind = "OauthIsAuthenticatedByProject"
                               /\ Has(Msg(last), "user")
                            THEN 1 ELSE 0

C4_Witness ==
    /\ last.kind = "OauthIsAuthenticated"
    /\ last.phase = "resume"
    /\ last.pc = "returned"
    /\ Has(Msg(last), "rawError")
    /\ last.status = 401
    /\ last.nexts = 0

\* C4 as stated: the authentication check invokes next on both outcomes of
\* the token check, authenticated or not (error returned or user null).
C4_NextOnBothOutcomes ==
    (/\ last.kind \in {"OauthIsAuthenticated", "OauthIsAuthenticatedByProject"}
     /\ last.phase = "resume"
     /\ last.pc = "returned")
    => last.nexts = 1

\* C5 (as the code has it): with non-empty inputs whose client is absent or
\* the empty string, a controller that requires client writes the
\* ValidationError "Missing client.", issues no call and does not invoke next;
\* status.client is true when client is absent and false when it is "".
C5_MissingClient ==
    (/\ last.kind \in Pipeline \ ByProject
     /\ last.phase = "sync"
     /\ last.hasInputs /\ last.inputs # EmptyRec
     /\ (~Has(last.inputs, "client") \/ last.inputs.client = ""))
    => /\ last.pc = "returned"
       /\ Msg(last).error
       /\ Msg(last).message = "Missing client."
       /\ Msg(last).status.client = ~Has(last.inputs, "client")
       /\ last.calls = 0
       /\ last.nexts = 0

C5_Witness ==
    /\ last.kind = "SignInWithPassword"
    /\ last.phase = "sync"
    /\ Has(last.inputs, "client") /\ last.inputs.client = ""
    /\ last.pc = "returned"
    /\ Msg(last).message = "Missing client."
    /\ ~Msg(last).status.client

\* C5 as stated: an empty client value, absent or "", yields "Missing client."
\* with status.client true.
C5_StatusClientTrue ==
    (/\ last.kind \in Pipeline \ ByProject
     /\ last.phase = "sync"
     /\ last.hasInputs /\ last.inputs # EmptyRec
     /\ (~Has(last.inputs, "client") \/ last.inputs.client = ""))
    => /\ Msg(last).message = "Missing client."
       /\ Msg(last).status.client

\* the GET layers the stack lists at path
RouteCount(stack, path) ==
    Cardinality({i \in 1..Len(stack) :
                    stack[i].path = path /\ "GET" \in stack[i].methods})

CallbackFlows == {"github", "OTP"}

\* C6 as stated: a callback request that completes a sign-in made with client
\* c carries clientConfigID = c when it reaches callbackController, also when
\* an earlier sign-in of the same flow used another client.
C6_CallbackResolvesSignInClient ==
    (last.kind = "callbackController" /\ last.phase = "sync")
    => last.query.clientConfigID = last.origin

\* C7: however many sign-ins with the default callback ran, the route table
\* lists at most one GET route at each flow's callback path, and exactly one
\* once a sign-in of that flow has passed the registration step: the path the
\* presence check looks for is the path the registered route is listed at.
C7_OneRoutePerFlow ==
    \A f \in CallbackFlows :
        /\ RouteCount(routes, CheckedPath(f)) <= 1
        /\ (\E s \in signins : s[2] = f /\ s[3]) =>
              RouteCount(routes, CheckedPath(f)) = 1

C7_Witness ==
    /\ {<<"c1", "github", TRUE>>, <<"c2", "github", TRUE>>} \subseteq signins
    /\ RouteCount(routes, CheckedPath("github")) = 1
    /\ \E s \in signins : s[2] = "OTP" /\ s[3]
    /\ RouteCount(routes, CheckedPath("OTP")) = 1

\* C8 (as the code has it): the presence check and the registration run in
\* the one synchronous segment before the controller's await, so while a
\* sign-in with the default callback is suspended on its call the route of its
\* flow is registered, exactly once, whatever else is in flight.
C8_NoRaceWindow ==
    \A k \in BagToSet(inflight) :
        UnsetCallbackURL(k) => RouteCount(routes, CheckedPath(Flow(k))) = 1

C8_Witness ==
    \E k \in BagToSet(inflight) :
        /\ UnsetCallbackURL(k)
        /\ CopiesIn(k, inflight) >= 2
        /\ RouteCount(routes, CheckedPath(Flow(k))) = 1

\* C8 as stated: the check and the registration are not atomic, a first use
\* that has passed the route-absent check is suspended with the route still
\* unregistered (so that a second first use can pass the check as well).
C8_CheckThenSuspend ==
    [][(/\ last'.phase = "sync"
        /\ UnsetCallbackURL(last')
        /\ inflight' # inflight
        /\ ~RoutePresent(routes, CheckedPath(Flow(last'))))
       => routes' = routes]_vars

\* C9: the route table changes only in the synchronous segment of an OAuth or
\* OTP sign-in whose callbackURL is unset or empty and that goes on to its
\* external call; a sign-in with a custom callbackURL, an invocation that ends
\* in a ValidationError or a configuration error, and every other step leave
\* the table as it was.
C9_RegisteredOnlyByDefaultSignIn ==
    [][routes' # routes =>
         /\ last'.phase = "sync"
         /\ last'.kind \in OauthKinds \cup {"SignInWithOTP"}
         /\ last'.pc = "awaiting"
         /\ (~Has(last'.inputs, "callbackURL") \/ last'.inputs.callbackURL = "")
         /\ last'.outcome = "none"]_vars

C9_Witness ==
    /\ last.kind = "OauthController"
    /\ last.phase = "sync"
    /\ last.pc = "awaiting"
    /\ Has(last.inputs, "callbackURL") /\ last.inputs.callbackURL # ""
    /\ routes = <<>>

\* C10 as stated: an invocation issues at most one external call, exactly one
\* once every validation and client-resolution step has passed, and none when
\* it ends in a ValidationError or a configuration error.
C10_OneCallWhenResolved ==
    /\ last.calls <= 1
    /\ (last.phase = "sync" /\ last.resolved) => last.calls = 1
    /\ last.outcome \in {"ValidationError", "ConfigError"} => last.calls = 0

----------------------------------------------------------------------------
(* Client resolution and the outcomes of the external call *)

\* the package a controller asks moduleConfigs for, and the client key it
\* resolves
PkgOf(kind) ==
    IF kind \in {"SignInWithPassword", "SignupRawData", "SignInWithOTP",
                 "OauthControllerPlain", "OauthIsAuthenticated"}
    THEN PkgPlain ELSE PkgAuth

Resolving ==
    {"SignInWithPassword", "Signup", "SignupRawData", "SignInWithOTP",
     "OauthController", "OauthControllerPlain",
     "OauthIsAuthenticated", "refreshSession", "callbackController"}

ClientKey(ctx) ==
    IF ctx.kind = "callbackController"
    THEN Field("key", ctx.query, "clientConfigID")
    ELSE Field("key", ctx.inputs, "client")

\* what the invocation answered: payload.msg, or ctx.body.msg behind the route
Answer(ctx) ==
    IF ctx.kind = "callbackController"
    THEN IF Has(ctx.body, "msg") THEN ctx.body.msg ELSE ctx.body
    ELSE Msg(ctx)

\* the first of the three resolution steps that fails for key c, "" if none
C11_FirstFailure(reg, pkg, c) ==
    IF pkg \notin DOMAIN reg
    THEN "Missing configs manager for ecoflow-supabase package"
    ELSE IF c \notin DOMAIN reg[pkg]
    THEN "Missing config for ecoflow-supabase package"
    ELSE IF reg[pkg][c].configs = "null"
    THEN "Missing supabase client"
    ELSE ""

\* C11: in a step that runs a controller with a non-empty client key whose
\* resolution fails, no call is issued, next is not invoked, the route table
\* and the calls in flight stay as they were; and when the controller answers
\* with a configuration error, the error is that of the first failing step in
\* the order manager, entry, client handle, with the HTTP status left unset.
C11_ResolutionFailures ==
    [][(/\ last'.phase = "sync"
        /\ last'.kind \in Resolving
        /\ Has(ClientKey(last'), "key") /\ ClientKey(last').key # ""
        /\ C11_FirstFailure(registry, PkgOf(last'.kind), ClientKey(last').key) # "")
       => /\ last'.calls = 0
          /\ last'.nexts = 0
          /\ last'.pc # "awaiting"
          /\ routes' = routes
          /\ inflight' = inflight
          /\ last'.outcome = "ConfigError" =>
               /\ Answer(last') =
                    [error |-> TRUE,
                     message |-> C11_FirstFailure(registry, PkgOf(last'.kind),
                                                  ClientKey(last').key)]
               /\ last'.status = 0]_vars

C11_Witness ==
    /\ last.kind = "SignInWithOTP"
    /\ last.phase = "sync"
    /\ Has(last.inputs, "client") /\ last.inputs.client = "c3"
    /\ PkgPlain \in DOMAIN registry
    /\ last.pc = "returned"
    /\ Msg(last) = [error |-> TRUE, message |-> "Missing supabase client"]
    /\ routes = <<>>

\* C12 (as the code has it): when the external call returns an error the
\* controller writes the error's message and the raw error; the status is 400
\* for password sign-in, OTP sign-in and sign-up, 401 for the authentication
\* check, 404 for refresh session, and OAuth sign-in leaves the status unset.
C12_AuthErrorStatus ==
    (/\ last.kind \in Pipeline
     /\ last.phase = "resume"
     /\ last.resp.kind = "error")
    => /\ last.pc = "returned"
       /\ Msg(last).message = last.resp.message
       /\ Msg(last).rawError = [message |-> last.resp.message]
       /\ last.status =
            IF last.kind \in {"SignInWithPassword", "SignInWithOTP", "Signup",
                             "SignupRawData"}
            THEN 400
            ELSE IF last.kind \in {"OauthIsAuthenticated",
                                   "OauthIsAuthenticatedByProject"}
            THEN 401
            ELSE IF last.kind \in RefreshKinds THEN 404
            ELSE 0

C12_Witness ==
    /\ last.kind = "OauthController"
    /\ last.phase = "resume"
    /\ last.resp.kind = "error"
    /\ Msg(last).message = "Unsupported provider"
    /\ last.status = 0

\* C12 as stated: the status is 400 for every sign-in and sign-up controller,
\* OAuth sign-in included, 401 for the authentication check, 404 for refresh.
C12_Status400ForOauth ==
    (/\ last.kind \in {"SignInWithPassword", "SignInWithOTP", "Signup",
                       "SignupRawData"} \cup OauthKinds
     /\ last.phase = "resume"
     /\ last.resp.kind = "error")
    => last.status = 400

\* C13 (as the code has it): a validation failure leaves the HTTP status
\* unset and writes an error with a message; for a missing client key,
\* provider, refresh token, project URL or API key the error also has a
\* status map of the expected fields, for missing inputs it has the message
\* only.  (The authentication check's missing token is the exception of C14.)
C13_ValidationErrors ==
    (/\ last.kind \in Pipeline
     /\ last.outcome = "ValidationError"
     /\ Msg(last) # MissingTokenMsg)
    => /\ last.pc = "returned"
       /\ last.status = 0
       /\ Msg(last).error
       /\ Msg(last).message \in
            {"Missing inputs.", "Missing client.", "Missing provider.",
             "Missing or invalid refresh token.", "Missing project URL.",
             "Missing API Key."}
       /\ IF Msg(last).message = "Missing inputs."
          THEN ~Has(Msg(last), "status")
          ELSE /\ Has(Msg(last), "status")
               /\ \A f \in DOMAIN Msg(last).status \ {"actualToken", "supabaseApiKey"} :
                     Msg(last).status[f] = ~Has(last.inputs, f)
               /\ DOMAIN Msg(last).status # {}

C13_Witness ==
    /\ last.kind = "refreshSession"
    /\ last.outcome = "ValidationError"
    /\ Msg(last).message = "Missing or invalid refresh token."
    /\ Msg(last).status.refreshToken
    /\ ~Msg(last).status.client
    /\ last.status = 0

\* C13 as stated: every validation failure, missing inputs included, writes a
\* message and a status map and leaves the HTTP status unset.
C13_AlwaysStatusMap ==
    (/\ last.kind \in Pipeline
     /\ last.phase = "sync"
     /\ (\/ ~last.hasInputs
         \/ last.inputs = EmptyRec
         \/ ~Has(last.inputs, "client") /\ last.kind \in Resolving
         \/ ~Has(last.inputs, "provider") /\ last.kind \in OauthKinds))
    => /\ Has(Msg(last), "message")
       /\ Has(Msg(last), "status")
       /\ last.status = 0

\* C14: the authentication check, with valid inputs and a client that
\* resolves, answers a request whose Authorization header is missing, empty
\* or without a token after the scheme with status 401 and payload.msg =
\* {authenticated: false, message: "Missing or invalid authorization token"},
\* without a getUser call and without next.
C14_MissingToken ==
    (/\ last.phase = "sync"
     /\ \/ /\ last.kind = "OauthIsAuthenticated"
           /\ Has(last.inputs, "client")
           /\ PkgPlain \in DOMAIN registry
           /\ last.inputs.client \in DOMAIN registry[PkgPlain]
           /\ registry[PkgPlain][last.inputs.client].configs # "null"
        \/ /\ last.kind = "OauthIsAuthenticatedByProject"
           /\ Has(last.inputs, "projectURL") /\ last.inputs.projectURL # ""
           /\ Has(last.inputs, "provider") /\ last.inputs.provider # ""
           /\ (\/ ~Has(last.inputs, "apiKey")
               \/ ~Has(last.inputs, "apiKeyFromEnv")
               \/ last.inputs.apiKey \in DOMAIN Env)
     /\ \/ ~Has(last.headers, "authorization")
        \/ Len(last.headers.authorization) < 2
        \/ last.headers.authorization[2] = "")
    => /\ last.pc = "returned"
       /\ last.status = 401
       /\ Msg(last) = [authenticated |-> FALSE,
                       message |-> "Missing or invalid authorization token"]
       /\ last.calls = 0
       /\ last.nexts = 0

C14_Witness ==
    /\ last.kind = "OauthIsAuthenticated"
    /\ last.phase = "sync"
    /\ last.headers = [authorization |-> <<"Bearer">>]
    /\ last.status = 401
    /\ Msg(last).message = "Missing or invalid authorization token"
    /\ last.calls = 0

\* C15: when the refreshSession call answers a session and a user and no
\* error, payload.msg has authenticated: true, the user, the session, the
\* session's access token as accessToken and its refresh token as
\* refreshToken, and next has been invoked exactly once.
C15_RefreshSuccess ==
    (/\ last.kind \in RefreshKinds
     /\ last.phase = "resume"
     /\ last.resp.kind = "ok"
     /\ last.resp.session # "null" /\ last.resp.user # "null")
    => /\ last.pc = "returned"
       /\ Msg(last).authenticated
       /\ Msg(last).user = last.resp.user
       /\ Msg(last).session = last.resp.session
       /\ Msg(last).accessToken = AccessToken(last.resp.session)
       /\ Msg(last).refreshToken = RefreshToken(last.resp.session)
       /\ Msg(last).accessToken # Msg(last).refreshToken
       /\ last.nexts = 1

C15_Witness ==
    /\ last.kind = "refreshSession"
    /\ last.phase = "resume"
    /\ last.resp = RespOk("u1", "s1")
    /\ Msg(last).accessToken = "s1.access_token"
    /\ Msg(last).refreshToken = "s1.refresh_token"
    /\ last.nexts = 1

----------------------------------------------------------------------------
(* ConfigurationController: the client of a configuration entry *)

\* helpers/supabaseClient: createClient(projectURL, apiKey, {auth: pkce})
supabaseClient(projectURL, apiKey) ==
    [projectURL |-> projectURL, apiKey |-> apiKey, flowType |-> "pkce"]

\* What the controller returns: the client, or null with the error it logged
Configured(client) == [ok |-> TRUE, client |-> client]

NotConfigured(log) == [ok |-> FALSE, log |-> log]

ConfigurationController(hasInputs, inputs) ==
    LET key == SupabaseApiKey(inputs)
    IN  IF ~hasInputs \/ inputs = EmptyRec
        THEN NotConfigured("Missing inputs.")
        ELSE IF MissingStr(inputs, "projectURL")
        THEN NotConfigured("Missing project URL.")
        ELSE IF MissingStr(key, "supabaseApiKey")
        THEN NotConfigured("Missing API key.")
        ELSE Configured(supabaseClient(inputs.projectURL, key.supabaseApiKey))

\* The controller as it was when clients were kept in ctx.global under the
\* node's id: what it logs or builds, and the global it leaves.
ConfigurationControllerGlobal(hasInputs, inputs, id, global) ==
    LET key == SupabaseApiKey(inputs)
        keep(r) == [result |-> r, global |-> global]
        ctx == (IF hasInputs THEN "inputs" :> inputs ELSE EmptyRec) @@ id @@
               ("global" :> global)
    IN  IF ctx = EmptyRec
        THEN keep(NotConfigured(""))
        ELSE IF ~hasInputs \/ inputs = EmptyRec
        THEN keep(NotConfigured("Missing inputs."))
        ELSE IF MissingStr(id, "id")
        THEN keep(NotConfigured(""))
        ELSE IF MissingStr(inputs, "projectURL")
        THEN keep(NotConfigured("Missing project URL."))
        ELSE IF MissingStr(key, "supabaseApiKey")
        THEN keep(NotConfigured("Missing API key."))
        ELSE LET client == supabaseClient(inputs.projectURL, key.supabaseApiKey)
             IN  [result |-> Configured(client),
                  global |-> (id.id :> client) @@ global]

ConfigurationInputs ==
    {[projectURL |-> "https://project.supabase.co"] @@ k @@ e :
        k \in Opt("apiKey", {"", "abc123", "ECOFLOW_USER_KEY2",
                             "ECOFLOW_USER_UNSET", "ECOFLOW_USER_EMPTY"}),
        e \in Opt("apiKeyFromEnv", {TRUE, FALSE})} \cup
    {u @@ [apiKey |-> "abc123"] : u \in Opt("projectURL", {""})}

ConfigurationCtxs ==
    NoInputCtxs("ConfigurationController") \cup
    WithInputs("ConfigurationController", ConfigurationInputs, {EmptyRec})

\* the ids of the configuration nodes
NodeIds == Opt("id", {"", "n1", "n2"})

Configure ==
    \E c \in ConfigurationCtxs :
        /\ last' = Return([c EXCEPT
                       !.body = ConfigurationController(c.hasInputs, c.inputs)])
        /\ UNCHANGED <<routes, registry, inflight, signins>>

ConfigureGlobal ==
    \E c \in ConfigurationCtxs, id \in NodeIds :
        LET r == ConfigurationControllerGlobal(c.hasInputs, c.inputs, id,
                                               registry.global)
        IN  /\ last' = Return([c EXCEPT !.kind = "ConfigurationControllerGlobal",
                                        !.query = id, !.body = r.result])
            /\ registry' = [registry EXCEPT !.global = r.global]
            /\ UNCHANGED <<routes, inflight, signins>>

InitConfig ==
    /\ routes = <<>>
    /\ registry = [global |-> EmptyRec]
    /\ inflight = EmptyBag
    /\ last = Idle
    /\ signins = {}

NextConfig == Configure \/ ConfigureGlobal

SpecConfig == InitConfig /\ [][NextConfig]_vars

\* the key the claim expects for inputs i: a record with the key, or empty
\* when the key is undefined
C16_ExpectedKey(i) ==
    IF "apiKey" \notin DOMAIN i
    THEN [key |-> Env["ECOFLOW_USER_SUPABASE_API_KEY"]]
    ELSE IF "apiKeyFromEnv" \in DOMAIN i /\ i.apiKeyFromEnv
    THEN IF i.apiKey \in DOMAIN Env THEN [key |-> Env[i.apiKey]] ELSE EmptyRec
    ELSE [key |-> i.apiKey]

\* C16: the client the configuration controller builds carries the key that
\* is the value of ECOFLOW_USER_SUPABASE_API_KEY when apiKey is undefined, the
\* value of the environment variable named by apiKey when apiKeyFromEnv is
\* set, and apiKey itself otherwise; a client is built, and stored in global,
\* only when that key is defined and non-empty (and projectURL is given).
C16_ApiKeyResolution ==
    [][LET c == last'
           expected == C16_ExpectedKey(c.inputs)
       IN  c.kind \in {"ConfigurationController", "ConfigurationControllerGlobal"}
           => /\ c.body.ok =>
                   /\ Has(expected, "key") /\ expected.key # ""
                   /\ c.body.client.apiKey = expected.key
                   /\ c.body.client.projectURL = c.inputs.projectURL
              /\ (/\ c.hasInputs
                  /\ Has(c.inputs, "projectURL") /\ c.inputs.projectURL # ""
                  /\ Has(expected, "key") /\ expected.key # ""
                  /\ c.kind = "ConfigurationControllerGlobal" =>
                        Has(c.query, "id") /\ c.query.id # "")
                 => c.body.ok
              /\ registry' # registry =>
                   /\ c.body.ok
                   /\ registry'.global[c.query.id] = c.body.client]_vars

C16_Witness ==
    /\ last.kind = "ConfigurationController"
    /\ Has(last.inputs, "apiKey") /\ last.inputs.apiKey = "ECOFLOW_USER_KEY2"
    /\ Has(last.inputs, "apiKeyFromEnv") /\ last.inputs.apiKeyFromEnv
    /\ last.body.ok
    /\ last.body.client.apiKey = "env-key-2"

----------------------------------------------------------------------------
(* Where the credentials of a call come from *)

Credentialed == {"SignInWithPassword", "Signup", "SignupRawData", "SignInWithOTP"}

\* the credential fields a controller hands to its call
CredentialFields(kind) ==
    IF kind = "SignInWithOTP" THEN {"email", "phone"}
    ELSE {"email", "phone", "password"}

\* the input that holds field f
InputName(f) == IF f = "phone" THEN "Phone" ELSE f

FromPayloadSet(ctx) == Has(ctx.inputs, "fromPayload") /\ ctx.inputs.fromPayload = TRUE

PayloadKeySet(ctx) == Has(ctx.inputs, "payloadKey") /\ ctx.inputs.payloadKey # ""

\* field f of the call's argument is field g of record src, undefined when
\* src has no g
SameField(args, f, src, g) ==
    /\ Has(args, f) <=> Has(src, g)
    /\ Has(args, f) => args[f] = src[g]

\* C17: in password sign-in, sign-up and OTP sign-in, with fromPayload set and
\* payloadKey = k non-empty the email, phone and password of the call are
\* payload[k].email, payload[k].phone and payload[k].password; with
\* fromPayload unset they are the inputs email, Phone and password.  (OTP
\* sign-in passes no password.)
C17_CredentialSource ==
    (/\ last.kind \in Credentialed
     /\ last.phase = "sync"
     /\ last.pc = "awaiting")
    => /\ (FromPayloadSet(last) /\ PayloadKeySet(last)) =>
            \A f \in CredentialFields(last.kind) :
                SameField(last.call.args, f,
                          IF last.inputs.payloadKey \in DOMAIN last.payload
                          THEN last.payload[last.inputs.payloadKey]
                          ELSE EmptyRec,
                          f)
       /\ ~FromPayloadSet(last) =>
            \A f \in CredentialFields(last.kind) :
                SameField(last.call.args, f, last.inputs, InputName(f))

C17_Witness ==
    /\ last.kind = "Signup"
    /\ last.phase = "sync"
    /\ last.pc = "awaiting"
    /\ FromPayloadSet(last) /\ PayloadKeySet(last)
    /\ last.inputs.payloadKey = "user"
    /\ Has(last.call.args, "email") /\ last.call.args.email = "u@b.com"
    /\ last.call.args.phone = "+1777"
    /\ last.call.args.password = "pw-u"

\* C18 as stated: with fromPayload set and payloadKey empty, each credential
\* of the call is payload.msg's field of the same name, in password sign-in,
\* sign-up and OTP sign-in.
C18_ConventionPath ==
    (/\ last.kind \in Credentialed
     /\ last.phase = "sync"
     /\ last.pc = "awaiting"
     /\ FromPayloadSet(last) /\ ~PayloadKeySet(last))
    => \A f \in CredentialFields(last.kind) :
           SameField(last.call.args, f, last.payload.msg, f)

\* C19 as stated: credential extraction never fails, whatever fromPayload,
\* payloadKey and the payload are: a controller that got past its client test
\* does not end in an exception while it reads its credentials.
C19_ExtractionNeverThrows ==
    (/\ last.kind \in Credentialed
     /\ last.phase = "sync"
     /\ ~last.resolved)
    => last.pc # "thrown"

\* C20 as stated: with fromPayload not set, nothing in the call's argument is
\* taken from the payload: email, phone and password are the literal inputs
\* and, the inputs having no captcha token, the call carries none.
C20_NothingFromPayload ==
    (/\ last.kind \in Credentialed
     /\ last.phase = "sync"
     /\ last.pc = "awaiting"
     /\ ~FromPayloadSet(last))
    => /\ \A f \in CredentialFields(last.kind) :
            SameField(last.call.args, f, last.inputs, InputName(f))
       /\ last.kind = "SignInWithPassword" => ~Has(last.call.args, "options")
       /\ last.kind = "Signup" => ~Has(last.call.args.options, "captchaToken")

----------------------------------------------------------------------------
(* C21: the order of client resolution and required-field validation *)

\* The invocation names a client that the registry cannot resolve
C21_Unresolvable ==
    /\ last.hasInputs
    /\ Has(last.inputs, "client") /\ last.inputs.client # ""
    /\ C11_FirstFailure(registry, PkgOf(last.kind), last.inputs.client) # ""

\* The required field of the controller is missing: the provider of the
\* OAuth sign-in, the token of the refresh
C21_FieldMissing ==
    \/ /\ last.kind \in OauthKinds
       /\ ~Has(last.inputs, "provider") \/ last.inputs.provider = ""
    \/ /\ last.kind = "refreshSession"
       /\ \/ ~Has(last.inputs, "refreshToken")
          \/ /\ ~TruthyFlag(last.inputs, "passByPayload")
             /\ last.inputs.refreshToken = ""
          \/ /\ TruthyFlag(last.inputs, "passByPayload")
             /\ ~Has(last.payload, last.inputs.refreshToken)

C21_FieldMessage ==
    IF last.kind \in OauthKinds
    THEN "Missing provider."
    ELSE "Missing or invalid refresh token."

\* C21 (as the code has it): OAuth sign-in and refresh session test their
\* required field before they resolve the client, so an invocation whose
\* required field is missing reports the missing-field error whether or not
\* the client configuration resolves, and reports no resolution error.
C21_FieldBeforeResolution ==
    (last.phase = "sync" /\ last.hasInputs /\ last.inputs # EmptyRec
        /\ Has(last.inputs, "client") /\ last.inputs.client # ""
        /\ C21_FieldMissing) =>
       /\ last.outcome = "ValidationError"
       /\ Msg(last).message = C21_FieldMessage
       /\ Has(Msg(last), "status")
       /\ last.calls = 0 /\ last.nexts = 0 /\ last.pc = "returned"

\* An OAuth sign-in without provider, and a refresh without token, each under
\* a registry that cannot resolve the client, report the missing field
C21_Witness ==
    /\ last.phase = "sync" /\ C21_Unresolvable /\ C21_FieldMissing
    /\ last.kind = "OauthController"
    /\ Msg(last).message = "Missing provider."

\* C21 (as stated): client resolution precedes the validation of the required
\* field, so an invocation in which the client is unresolvable and the
\* required field is missing reports the configuration-resolution error.
C21_ResolutionBeforeField ==
    (last.phase = "sync" /\ C21_Unresolvable /\ C21_FieldMissing) =>
       /\ last.outcome = "ConfigError"
       /\ Msg(last).message =
            C11_FirstFailure(registry, PkgOf(last.kind), last.inputs.client)

----------------------------------------------------------------------------
(* C22: the shape of the Success outcomes *)

\* the outcome has a success or authenticated flag that is true
C22_Flagged(m) ==
    \/ Has(m, "success") /\ m.success = TRUE
    \/ Has(m, "authenticated") /\ m.authenticated = TRUE

\* the outcome carries the entity the call returned: the user and session of
\* the answer, or the URL of the OAuth sign-in
C22_Entity(ctx) ==
    LET m == Msg(ctx)
    IN  IF ctx.kind \in OauthKinds
        THEN Has(m, "url") /\ m.url = ctx.resp.url
        ELSE /\ Has(m, "user") /\ m.user = ctx.resp.user /\ m.user # "null"
             /\ ctx.kind \notin {"OauthIsAuthenticated",
                                 "OauthIsAuthenticatedByProject"} =>
                    Has(m, "session") /\ m.session = ctx.resp.session

\* C22 (as the code has it): a Success outcome is written only after the
\* external call answered without error.  In OAuth sign-in, password sign-in,
\* sign-up, the authentication check and refresh session it has a true
\* success or authenticated flag and the returned entity (URL, or user and
\* session); refresh and password sign-in add the tokens of the session.  OTP
\* sign-in's Success is {success: true, message} and carries no entity; the
\* earlier Signup writes the answer {user, session} as it came, with no flag.
C22_SuccessShape ==
    (last.kind \in Pipeline /\ last.outcome = "Success") =>
       /\ last.phase = "resume" /\ last.resp.kind = "ok"
       /\ last.kind \notin {"SignInWithOTP", "SignupRawData"} =>
            C22_Flagged(Msg(last)) /\ C22_Entity(last)
       /\ last.kind \in {"SignInWithPassword"} \cup RefreshKinds =>
            /\ Msg(last).accessToken = AccessToken(last.resp.session)
            /\ Msg(last).refreshToken = RefreshToken(last.resp.session)
       /\ last.kind = "SignInWithOTP" =>
            Msg(last) = [success |-> TRUE, message |-> "OTP sent successfully."]
       /\ last.kind = "SignupRawData" =>
            Msg(last) = [user |-> last.resp.user, session |-> last.resp.session]

\* an OTP sign-in succeeded: its outcome has the flag and a message only
C22_Witness ==
    /\ last.kind = "SignInWithOTP"
    /\ last.outcome = "Success"
    /\ last.nexts = 1
    /\ DOMAIN Msg(last) = {"success", "message"}

\* C22 (as stated): every Success outcome has a success or authenticated
\* boolean together with the returned entity (user, session, tokens or URL),
\* for each of OAuth sign-in, password sign-in, sign-up, OTP sign-in,
\* authentication check and refresh session.
C22_FlagAndEntity ==
    (last.kind \in Pipeline /\ last.outcome = "Success") =>
       /\ \E f \in {"success", "authenticated"} :
             Has(Msg(last), f) /\ Msg(last)[f] \in BOOLEAN
       /\ \E f \in {"user", "session", "accessToken", "refreshToken", "url"} :
             Has(Msg(last), f) /\ Msg(last)[f] # "null"

----------------------------------------------------------------------------
(* C23: the response body of the callback route *)

\* C23: every response body of the callback route handler is the envelope
\* {msg: {...}} whose msg has success or error, and a message, on every path:
\* missing code, missing clientConfigID, unresolvable configuration, exchange
\* error and successful exchange.
C23_Envelope ==
    (last.kind = "callbackController" /\ last.pc = "returned") =>
       /\ DOMAIN last.body = {"msg"}
       /\ \/ Has(last.body.msg, "success") /\ last.body.msg.success = TRUE
          \/ Has(last.body.msg, "error") /\ last.body.msg.error = TRUE
       /\ Has(last.body.msg, "message")

----------------------------------------------------------------------------
(* OauthController as it was before moduleConfigs: the client is built from
   projectURL and an API key and kept in the process-wide global.supabase *)

\* global.supabase = null
NullClient == EmptyRec

OauthProjectStatus(inputs) ==
    ProjectStatus(inputs) @@
    [callbackURL |-> IsUndefined(inputs, "callbackURL")]

\* router.apiRouter.get(path, callbackController): a layer with no middleware
\* in front of the controller
RouterGetHandler(stack, path) ==
    Append(stack, [path |-> ApiPrefix \o path, methods |-> {"HEAD", "GET"}])

EnsureCallbackHandler(stack, inputs, flow) ==
    IF MissingStr(inputs, "callbackURL") /\ ~RoutePresent(stack, CheckedPath(flow))
    THEN RouterGetHandler(stack, RegisteredPath(flow))
    ELSE stack

OauthControllerByProject(ctx, global, stack) ==
    LET inputs == ctx.inputs
        key == SupabaseApiKey(inputs)
        keyStatus == OauthProjectStatus(inputs) @@
                     [supabaseApiKey |-> IsUndefined(key, "supabaseApiKey")]
        keep(c) == [ctx |-> c, routes |-> stack, global |-> global]
    IN  IF MissingInputs(ctx)
        THEN keep(Return(WriteMsg(ctx, MissingInputsMsg, "ValidationError")))
        ELSE IF MissingStr(inputs, "projectURL")
        THEN keep(Return(WriteMsg(ctx,
                    [error |-> TRUE, message |-> "Missing project URL.",
                     status |-> OauthProjectStatus(inputs)], "ValidationError")))
        ELSE IF IsUndefined(key, "supabaseApiKey")
        THEN keep(Return(WriteMsg(ctx,
                    [error |-> TRUE, message |-> "Missing API Key.",
                     status |-> keyStatus], "ValidationError")))
        ELSE IF MissingStr(inputs, "provider")
        THEN keep(Return(WriteMsg(ctx,
                    [error |-> TRUE, message |-> "Missing provider.",
                     status |-> keyStatus], "ValidationError")))
        ELSE LET assigned ==
                   [global EXCEPT !.supabase =
                        supabaseClient(inputs.projectURL, key.supabaseApiKey)]
             IN  IF assigned.supabase = NullClient
                 THEN [ctx |-> Return(WriteMsg(ctx,
                                 [error |-> TRUE,
                                  message |-> "Missing supabase client"],
                                 "ConfigError")),
                       routes |-> stack, global |-> assigned]
                 ELSE [ctx |-> Await(Resolved(ctx), "signInWithOAuth",
                                 [provider |-> inputs.provider,
                                  supabase |-> assigned.supabase,
                                  options |->
                                    [redirectTo |->
                                       IF TruthyStr(inputs, "callbackURL")
                                       THEN inputs.callbackURL
                                       ELSE BaseUrl \o CheckedPath(inputs.provider)]]),
                       routes |-> EnsureCallbackHandler(stack, inputs, inputs.provider),
                       global |-> assigned]

OauthControllerByProjectResume(ctx, resp) ==
    IF resp.kind = "throw"
    THEN Throw(ctx)
    ELSE IF resp.kind = "error"
    THEN Return(WriteMsg(ctx,
                         [error |-> TRUE, message |-> resp.message,
                          rawError |-> RawError(resp)],
                         "AuthError"))
    ELSE Return(CallNext(WriteMsg(ctx,
                         [success |-> TRUE,
                          message |-> "Auth url generated successfully.",
                          url |-> resp.url, provider |-> resp.provider],
                         "Success")))

OauthControllerByProjectCtxs ==
    NoInputCtxs("OauthControllerByProject") \cup
    WithInputs("OauthControllerByProject",
               {u @@ [apiKey |-> "anon-key", provider |-> "github"] :
                    u \in Opt("projectURL", {"", "https://p1.supabase.co",
                                             "https://p2.supabase.co"})} \cup
               {[projectURL |-> "https://p1.supabase.co",
                 apiKey |-> "ECOFLOW_USER_UNSET", apiKeyFromEnv |-> TRUE,
                 provider |-> "github"],
                [projectURL |-> "https://p1.supabase.co"],
                [projectURL |-> "https://p2.supabase.co", provider |-> "google",
                 callbackURL |-> "https://app/cb"]},
               {EmptyRec})

InvokeOauthControllerByProject(max) ==
    \E c \in OauthControllerByProjectCtxs :
        Started(OauthControllerByProject(c, registry.global, routes), max)

ResumeOauthControllerByProject ==
    \E k \in Suspended("OauthControllerByProject") :
        \E r \in OauthControllerResponses(k) :
            Resumed(k, OauthControllerByProjectResume(Segment(k, r), r))

\* A request to a route that was registered with the controller alone: the
\* query reaches callbackController as the browser sent it
CallbackRequestDirect(max) ==
    \E i \in 1..Len(routes), q \in CallbackQueries :
        Started([ctx |-> callbackController(
                    [Ctx("callbackController", TRUE, EmptyRec, EmptyRec, EmptyRec, q)
                       EXCEPT !.path = routes[i].path],
                    registry),
                 routes |-> routes], max)

\* functionManifest(): global.supabase = null, whatever it held; the host
\* calls it when it loads the module and whenever it lists the module's nodes
functionManifest(global) == [global EXCEPT !.supabase = NullClient]

InvokeFunctionManifest ==
    /\ last' = Return(Ctx("functionManifest", FALSE, EmptyRec, EmptyRec,
                          EmptyRec, EmptyRec))
    /\ registry' = [registry EXCEPT !.global = functionManifest(registry.global)]
    /\ UNCHANGED <<routes, inflight, signins>>

InitProject ==
    /\ routes = <<>>
    /\ registry = [global |-> [supabase |-> NullClient]]
    /\ inflight = EmptyBag
    /\ last = Idle
    /\ signins = {}

NextProject ==
    \/ InvokeOauthControllerByProject(MaxConcurrent)
    \/ ResumeOauthControllerByProject
    \/ CallbackRequestDirect(MaxConcurrent)
    \/ InvokeOauthIsAuthenticatedByProject(MaxConcurrent)
    \/ ResumeOauthIsAuthenticatedByProject
    \/ InvokeRefreshSessionByProject(MaxConcurrent)
    \/ ResumeRefreshSessionByProject
    \/ InvokeFunctionManifest

SpecProject == InitProject /\ [][NextProject]_vars

----------------------------------------------------------------------------
(* C24: what an invocation reads and changes beyond its own context *)

\* C24: invocations are stateless.  An invocation's outcome, status and
\* continuation are those it has with no invocation before it (an empty route
\* table, global.supabase as the manifest left it); the only module-wide
\* state a step of an invocation changes is the callback route table; the
\* configuration registry and the client handles are never modified by an
\* invocation (the manifest's own reset of global.supabase is not one).
C24_Stateless ==
    [][/\ \A c \in OauthControllerByProjectCtxs :
             OauthControllerByProject(c, registry.global, routes).ctx =
             OauthControllerByProject(c, [supabase |-> NullClient], <<>>).ctx
       /\ last'.kind # "functionManifest" => registry' = registry]_vars

----------------------------------------------------------------------------
(* C25: where the refresh token comes from *)

\* the token the claim expects, as a sequence: empty when it is undefined
C25_Token ==
    IF Has(last.inputs, "passByPayload") /\ last.inputs.passByPayload = TRUE
    THEN IF Has(last.inputs, "refreshToken")
              /\ last.inputs.refreshToken \in DOMAIN last.payload
         THEN <<last.payload[last.inputs.refreshToken]>>
         ELSE <<>>
    ELSE IF Has(last.inputs, "refreshToken")
         THEN <<last.inputs.refreshToken>>
         ELSE <<>>

\* the tests that precede the token's: the client key, or the project URL and
\* the API key
C25_PastTests ==
    \/ /\ last.kind = "refreshSession"
       /\ Has(last.inputs, "client") /\ last.inputs.client # ""
    \/ /\ last.kind = "refreshSessionByProject"
       /\ Has(last.inputs, "projectURL") /\ last.inputs.projectURL # ""
       /\ Has(C16_ExpectedKey(last.inputs), "key")

\* the client of the refresh resolves: every step of the resolution passes
\* (the earlier refreshSession builds its client and resolves nothing)
C25_ClientResolves ==
    last.kind = "refreshSession" =>
        C11_FirstFailure(registry, PkgOf(last.kind), last.inputs.client) = ""

\* C25: refresh session, past the inputs and client tests.  With
\* passByPayload set the token is payload[refreshToken], with passByPayload
\* unset it is the refreshToken input itself.  When that token is undefined
\* or empty the controller writes "Missing or invalid refresh token." and
\* issues no external call; otherwise it does not write that message, the
\* only call it issues is refreshSession with that token, and it issues that
\* call whenever its client resolves.
C25_TokenSource ==
    (/\ last.kind \in RefreshKinds
     /\ last.phase = "sync"
     /\ last.hasInputs
     /\ C25_PastTests)
    => /\ (C25_Token = <<>> \/ C25_Token = <<"">>) =>
            /\ last.calls = 0 /\ last.nexts = 0 /\ last.pc = "returned"
            /\ Has(Msg(last), "message") /\ Has(Msg(last), "error")
            /\ Msg(last).message = "Missing or invalid refresh token."
            /\ Msg(last).error = TRUE
       /\ (C25_Token # <<>> /\ C25_Token # <<"">>) =>
            /\ Has(Msg(last), "message") =>
                  Msg(last).message # "Missing or invalid refresh token."
            /\ last.calls <= 1
            /\ last.calls = 1 =>
                  /\ last.call.api = "refreshSession"
                  /\ last.call.args = [refresh_token |-> C25_Token[1]]
            /\ C25_ClientResolves =>
                  /\ last.calls = 1 /\ last.pc = "awaiting"
                  /\ last.outcome = "none"

\* a token named by a payload key went into the call
C25_Witness ==
    /\ last.kind = "refreshSession"
    /\ last.phase = "sync"
    /\ last.pc = "awaiting"
    /\ Has(last.inputs, "passByPayload") /\ last.inputs.passByPayload = TRUE
    /\ last.inputs.refreshToken = "rtKey"
    /\ last.call.args.refresh_token = "rt-from-payload"

----------------------------------------------------------------------------
(* C26: the callback resolves the client of the sign-in *)

\* C26: the callback controller asks the configuration manager that the
\* registering controller asked.  A callback with a code, on the route that a
\* sign-in with client c registered after resolving c, resolves c and goes on
\* to the code exchange with c's handle; it does not end in a missing-manager
\* or missing-config error.
C26_CallbackResolves ==
    (/\ last.kind = "callbackController"
     /\ last.phase = "sync"
     /\ TruthyStr(last.query, "code")
     /\ last.query.clientConfigID = last.origin)
    => /\ last.outcome # "ConfigError"
       /\ last.resolved
       /\ last.pc = "awaiting"
       /\ last.call.api = "exchangeCodeForSession"
       /\ \E pkg \in DOMAIN registry :
             last.call.args.supabase = registry[pkg][last.origin].configs

----------------------------------------------------------------------------
(* C27: the redirect target handed to the external call *)

\* the redirect target of the sign-in call that `last` has just issued
C27_Target ==
    IF last.kind = "SignInWithOTP"
    THEN last.call.args.options.emailRedirectTo
    ELSE last.call.args.options.redirectTo

\* C27: in OAuth sign-in and OTP sign-in the redirect target of the call is
\* the custom callbackURL whenever one is supplied, and the default path
\* <baseUrl>/api/auth/supabase/callback/<provider> (or /OTP) only when
\* callbackURL is unset; so the target is never a default path whose route
\* this invocation did not see registered.
C27_RedirectTarget ==
    (/\ last.kind \in OauthKinds \cup {"SignInWithOTP"}
     /\ last.phase = "sync"
     /\ last.pc = "awaiting")
    => /\ C27_Target =
            IF Has(last.inputs, "callbackURL") /\ last.inputs.callbackURL # ""
            THEN last.inputs.callbackURL
            ELSE BaseUrl \o CheckedPath(Flow(last))
       /\ C27_Target = BaseUrl \o CheckedPath(Flow(last)) =>
            RoutePresent(routes, CheckedPath(Flow(last)))

----------------------------------------------------------------------------
(* C28: the flags of the outcomes *)

C28_ErrorFlag(m) == Has(m, "error") /\ m.error = TRUE

C28_TrueFlag(m) ==
    \E f \in {"success", "authenticated", "Authenticated"} :
        Has(m, f) /\ m[f] = TRUE

\* C28: every outcome in payload.msg that is not a Success has error: true
\* or authenticated: false (or Authenticated: false), and no outcome has a
\* true success or authenticated flag together with error: true, in every
\* controller and on every failure path.
C28_FailureFlagged ==
    (last.kind \in Pipeline /\ last.outcome # "none") =>
       /\ last.outcome # "Success" =>
            \/ C28_ErrorFlag(Msg(last))
            \/ \E f \in {"authenticated", "Authenticated"} :
                  Has(Msg(last), f) /\ Msg(last)[f] = FALSE
       /\ ~(C28_TrueFlag(Msg(last)) /\ C28_ErrorFlag(Msg(last)))

----------------------------------------------------------------------------
(* C29: a refresh that answers without a session *)

\* C29: refresh session, when the call answers with no error and the session
\* or the user of the answer is null, writes payload.msg = {error: true,
\* message: "Failed to refresh session"}, does not invoke next and leaves the
\* HTTP status unset.
C29_FailedRefresh ==
    (/\ last.kind \in RefreshKinds
     /\ last.phase = "resume"
     /\ last.resp.kind = "ok"
     /\ (last.resp.session = "null" \/ last.resp.user = "null"))
    => /\ Msg(last) = [error |-> TRUE, message |-> "Failed to refresh session"]
       /\ last.nexts = 0
       /\ last.status = 0
       /\ last.pc = "returned"

\* the call answered a session without a user
C29_Witness ==
    /\ last.kind = "refreshSession"
    /\ last.phase = "resume"
    /\ last.resp.kind = "ok"
    /\ last.resp.session # "null" /\ last.resp.user = "null"
    /\ Msg(last).message = "Failed to refresh session"

----------------------------------------------------------------------------
(* C30: a failed code exchange in the callback *)

\* C30: in the callback controller a failure of the code exchange never
\* escapes.  Whether the call returns an error or throws, the handler returns
\* with the body {msg: {error: true, message, rawError}}; the success body is
\* produced only when the call returned without error.
C30_ExchangeFailure ==
    (last.kind = "callbackController" /\ last.phase = "resume") =>
       /\ last.pc = "returned"
       /\ last.resp.kind \in {"error", "throw"} =>
            last.body = [msg |-> [error |-> TRUE,
                                  message |-> last.resp.message,
                                  rawError |-> [message |-> last.resp.message]]]
       /\ (Has(last.body, "msg") /\ Has(last.body.msg, "success")) =>
            /\ last.resp.kind = "ok"
            /\ last.body.msg.user = last.resp.user
            /\ last.body.msg.session = last.resp.session

\* the exchange threw and the handler answered the error body
C30_Witness ==
    /\ last.kind = "callbackController"
    /\ last.phase = "resume"
    /\ last.resp.kind = "throw"
    /\ last.pc = "returned"
    /\ last.body.msg.error = TRUE
    /\ last.body.msg.message = "fetch failed"

====
